---- MODULE Spec2Model ----
(***************************************************************************)
(* Verification model of the job-ingestion core:                           *)
(*   - fetchWithRetry (adapters/util.ts) and the two source adapters,      *)
(*   - the robots.txt gate and scrapeJobFromUrl (utils/supabase/action.ts),*)
(*   - the salary tiers: finalizeSalary, the Greenhouse feature extraction, *)
(*     analyzeAdapterJob with its oracle call, and analyzeJob around it,    *)
(*   - the scoring engine (app/scoring/score.ts).                           *)
(* Money is counted in half cents, so that the midpoint of two amounts in   *)
(* whole cents is an integer; scores are counted in tenths.                 *)
(* Time is in milliseconds and advances only through the Advance actions.  *)
(***************************************************************************)
EXTENDS Integers, Sequences, FiniteSets, TLC

VARIABLES
    \* ---- fetchWithRetry / adapters ----
    cfg,            \* options of the call: caller, retries, baseDelayMs, ...
    fpc,            \* position of the call: init, inflight, sleeping, returned, thrown
    attempt,        \* loop variable `attempt`
    now,            \* wall clock, ms
    attemptStart,   \* time the current attempt armed its timer and called fetch
    wakeAt,         \* time the pending sleep(ms) resolves
    timers,         \* armed setTimeout handles: records [att, at]
    ctrlAborted,    \* attempts whose attemptController has been aborted
    listeners,      \* attempts whose controller listens to callerSignal (fallback path)
    callerAborted,  \* callerSignal.aborted
    requests,       \* network requests actually issued
    sleeps,         \* completed calls of sleep()
    retryableSeen,  \* outcomes so far that were 429, 5xx, network error or timeout
    prev,           \* outcome of the most recently finished attempt
    result,         \* what the call returned or threw
    adapterResult,  \* what the adapter on top of the call produced
    \* ---- robots.txt policy functions on one input ----
    ppc,            \* stage: input, parsed, picked, evaluated
    ptext,          \* robots.txt text, a sequence of directive lines
    pua,            \* the active user agent
    ppath,          \* pathname of the page URL
    pgroups,        \* parseRobotsTxt(text)
    pchosen,        \* index in pgroups of pickAgentGroup's result, 0 for null
    peffective,     \* profile.effective
    pallowed,       \* isAllowedByRobots(pageUrl, profile)
    \* ---- the robots gate and scrapeJobFromUrl, concurrent calls ----
    robotsCache,    \* the module-level Map origin -> RobotsProfile
    rpc,            \* per call: idle, robots_wait, robots_body, adapter_wait, done
    rcall,          \* per call: entry point, URL and userAgent option
    rprof,          \* per call: the profile fetchRobots returned
    routcome,       \* per call: how it ended
    radapter,       \* per call: the adapter scrapeJobFromUrl delegated to
    reqRobots,      \* per call: robots.txt requests issued
    reqPage,        \* per call: page or API requests issued by the adapter
    rfail,          \* per call: how its robots.txt request ended
    rsawCache,      \* per call: the origin had a cached policy when the call began
    \* ---- finalizeSalary on one input ----
    finIn,          \* the features object passed in
    finOut,         \* the features object afterwards
    finBy,          \* which finalizeSalary ran: none, normalizers, safe
    \* ---- one job through the adapter, analyzeAdapterJob and analyzeJob ----
    spc,            \* stage: start, adapted, oracle1, oracle2, merge, storing, done,
                    \*        failed, returned
    spass,          \* which run of analyzeAdapterJob: 1 from analyzeJob itself,
                    \*        2 from InsertStructuredJobFeatures
    sjob,           \* the posting: provider, metadata entries, content text
    smeta,          \* what extractGhFeaturesFromMetadata returned for the posting
    sadapter,       \* job.features as the adapter left it
    sdet,           \* features after the text-extraction and tiny-range step
    scalls,         \* the calls of callOnce in this run: TRUE where the response validated
    sai,            \* aiData of the current run, the validated oracle record
    smerged,        \* what analyzeAdapterJob returned
    sthrown,        \* the error analyzeAdapterJob or an earlier step threw
    sorch,          \* what analyzeJob returned to its caller
    \* ---- scoreJob / finalizeScore on one input ----
    kpc,            \* stage: input, breakdown, scored
    kinput,         \* the AtsJobInput
    kweights,       \* the weights argument
    kbreakdown,     \* the breakdown map
    kscore,         \* the overall score, a fraction [num, den] in tenths
    \* ---- requisition_id through the Greenhouse adapter ----
    qpc,            \* stage: input, normalized
    qvalue,         \* requisition_id of the payload, None or a string of characters
    qout,           \* requisition_id of the AdapterJob
    \* ---- the lock-guarded POST handler, concurrent requests of one user ----
    row,            \* the request_lock row of the user: exists, is_available, tokens_remaining
    lpc,            \* per request: where the POST handler is
    lsnap,          \* per request: what request_lock_and_tokens returned
    ldata,          \* per request: tokens_remaining returned by the locking update
    lheld,          \* per request: lockHeld
    lresp,          \* per request: status of the response, 0 before it
    \* ---- analyzeJob and ingestUserJobPosting on the stored job, one call after another ----
    djob,           \* the jobs row of one composite key: exists, updated_at, last_seen
    dfeat,          \* its job_features row: exists and the stored feature set
    dupdates,       \* ats_updated_at of its job_updates rows, in insertion order
    dnow,           \* the clock, in hours
    dpc,            \* where the call in progress is, idle or returned between calls
    dcall,          \* the call in progress or last finished: arguments and what it did
    dret            \* what the call returned

fetchVars == <<cfg, fpc, attempt, now, attemptStart, wakeAt, timers, ctrlAborted,
               listeners, callerAborted, requests, sleeps, retryableSeen, prev,
               result, adapterResult>>

policyVars == <<ppc, ptext, pua, ppath, pgroups, pchosen, peffective, pallowed>>

robotsVars == <<robotsCache, rpc, rcall, rprof, routcome, radapter, reqRobots,
                reqPage, rfail, rsawCache>>

finalizeVars == <<finIn, finOut, finBy>>

salaryVars == <<spc, spass, sjob, smeta, sadapter, sdet, scalls, sai, smerged, sthrown, sorch>>

scoreVars == <<kpc, kinput, kweights, kbreakdown, kscore>>

reqVars == <<qpc, qvalue, qout>>

lockVars == <<row, lpc, lsnap, ldata, lheld, lresp>>

storeVars == <<djob, dfeat, dupdates, dnow, dpc, dcall, dret>>

vars == <<fetchVars, policyVars, robotsVars, finalizeVars, salaryVars, scoreVars, reqVars, lockVars, storeVars>>

nonFetchVars == <<policyVars, robotsVars, finalizeVars, salaryVars, scoreVars, reqVars, lockVars, storeVars>>
nonPolicyVars == <<fetchVars, robotsVars, finalizeVars, salaryVars, scoreVars, reqVars, lockVars, storeVars>>
nonRobotsVars == <<fetchVars, policyVars, finalizeVars, salaryVars, scoreVars, reqVars, lockVars, storeVars>>
nonFinalizeVars == <<fetchVars, policyVars, robotsVars, salaryVars, scoreVars, reqVars, lockVars, storeVars>>
nonSalaryVars == <<fetchVars, policyVars, robotsVars, finalizeVars, scoreVars, reqVars, lockVars, storeVars>>
nonScoreVars == <<fetchVars, policyVars, robotsVars, finalizeVars, salaryVars, reqVars, lockVars, storeVars>>
nonReqVars == <<fetchVars, policyVars, robotsVars, finalizeVars, salaryVars, scoreVars, lockVars, storeVars>>
nonLockVars == <<fetchVars, policyVars, robotsVars, finalizeVars, salaryVars, scoreVars, reqVars, storeVars>>
nonStoreVars == <<fetchVars, policyVars, robotsVars, finalizeVars, salaryVars, scoreVars, reqVars, lockVars>>

\* the fetch call is not part of the run
FetchIdle ==
    /\ cfg = [caller |-> "none"]
    /\ fpc = "off"
    /\ attempt = 0 /\ now = 0 /\ attemptStart = 0 /\ wakeAt = 0
    /\ timers = {} /\ ctrlAborted = {} /\ listeners = {}
    /\ callerAborted = FALSE
    /\ requests = 0 /\ sleeps = 0 /\ retryableSeen = 0
    /\ prev = [kind |-> "none"]
    /\ result = [kind |-> "none"]
    /\ adapterResult = "off"

\* the policy functions are not part of the run
PolicyIdle ==
    /\ ppc = "off"
    /\ ptext = <<>> /\ pua = "" /\ ppath = <<>>
    /\ pgroups = <<>> /\ pchosen = 0
    /\ peffective = [allows |-> <<>>, disallows |-> <<>>]
    /\ pallowed = FALSE

\* the robots gate is not part of the run
RobotsIdle ==
    /\ robotsCache = <<>>
    /\ rpc = <<>> /\ rcall = <<>> /\ rprof = <<>> /\ routcome = <<>>
    /\ radapter = <<>> /\ reqRobots = <<>> /\ reqPage = <<>>
    /\ rfail = <<>> /\ rsawCache = <<>>

\* finalizeSalary is not part of the run
FinalizeIdle ==
    /\ finIn = <<>> /\ finOut = <<>> /\ finBy = "off"

\* the salary tiers are not part of the run
SalaryIdle ==
    /\ spc = "off" /\ spass = 0
    /\ sjob = <<>> /\ smeta = <<>> /\ sadapter = <<>> /\ sdet = <<>>
    /\ scalls = <<>>
    /\ sai = <<>> /\ smerged = <<>> /\ sthrown = "" /\ sorch = <<>>

\* the scoring engine is not part of the run
ScoreIdle ==
    /\ kpc = "off"
    /\ kinput = <<>> /\ kweights = <<>> /\ kbreakdown = <<>> /\ kscore = <<>>

\* the requisition id is not part of the run
ReqIdle ==
    /\ qpc = "off" /\ qvalue = <<>> /\ qout = <<>>

\* the POST handler is not part of the run
LockIdle ==
    /\ row = <<>> /\ lpc = <<>> /\ lsnap = <<>> /\ ldata = <<>> /\ lheld = <<>> /\ lresp = <<>>

\* the stored job is not part of the run
StoreIdle ==
    /\ djob = <<>> /\ dfeat = <<>> /\ dupdates = <<>> /\ dnow = 0 /\ dpc = "off"
    /\ dcall = <<>> /\ dret = <<>>

-----------------------------------------------------------------------------
(* Bounds of the model *)
MaxRetries == 2
MaxRetryAfterSec == 2

(* Program constants *)
DefaultBaseDelayMs == 250
DefaultTimeoutMs == 15000
DefaultMaxBackoffMs == 10000
AdapterRetries == 2
AdapterBaseDelayMs == 300
AdapterTimeoutMs == 12000
MsPerSecond == 1000

(* Inputs the environment may choose *)
SmallMaxBackoffMs == 400
StepMs == 10000
DateAheadMs == 3000

Min2(a, b) == IF a <= b THEN a ELSE b
Max2(a, b) == IF a >= b THEN a ELSE b

RECURSIVE Pow2(_)
Pow2(n) == IF n <= 0 THEN 1 ELSE 2 * Pow2(n - 1)

SetMin(S) == CHOOSE x \in S : \A y \in S : x <= y

-----------------------------------------------------------------------------
(* Responses and errors of the platform fetch *)

Statuses == {200, 404, 429, 503}

NoHdr == [t |-> "none", n |-> 0]
SecHdr(k) == [t |-> "sec", n |-> k]
DateHdr(at) == [t |-> "date", n |-> at]
BadHdr == [t |-> "garbage", n |-> 0]

\* Retry-After values a response with `status` may carry at time `t`.
RetryAfterHeaders(status, t) ==
    CASE status = 429 ->
            {NoHdr, BadHdr, DateHdr(t + DateAheadMs), DateHdr(0)}
                \cup {SecHdr(k) : k \in 0..MaxRetryAfterSec}
      [] status \in 500..599 -> {NoHdr, SecHdr(MaxRetryAfterSec)}
      [] OTHER -> {NoHdr}

\* Messages of errors the platform fetch rejects with.
NetErrors == {"failed to fetch", "fetch failed", "too many requests", "internal server error"}
AbortMsg == "this operation was aborted"

NoOutcome == [kind |-> "none", status |-> 0, hdr |-> NoHdr, at |-> 0, start |-> 0, att |-> 0]
NoResult == [kind |-> "none", status |-> 0, msg |-> ""]

ResOk(status) == status >= 200 /\ status <= 299

-----------------------------------------------------------------------------
(* fetchWithRetry helpers *)

backoff(att) ==
    Min2(cfg.maxBackoffMs, cfg.baseDelayMs * Pow2(Max2(0, att)))

\* mutant: the seconds of Retry-After taken as milliseconds
parseRetryAfterNoScale(hdr, t) ==
    CASE hdr.t = "none" -> -1
      [] hdr.t = "sec" -> Max2(0, hdr.n)
      [] hdr.t = "date" -> IF hdr.n - t > 0 THEN hdr.n - t ELSE 0
      [] OTHER -> -1

\* null is modelled as -1
parseRetryAfter(hdr, t) ==
    CASE hdr.t = "none" -> -1
      [] hdr.t = "sec" -> Max2(0, hdr.n * MsPerSecond)
      [] hdr.t = "date" -> IF hdr.n - t > 0 THEN hdr.n - t ELSE 0
      [] OTHER -> -1

\* mutant: every error status is retried
shouldRetryAnyError(status) == status >= 400

shouldRetry(status) == status = 429 \/ (status >= 500 /\ status <= 599)

waitAfterResponse(status, hdr, att, t) ==
    LET waitMs == backoff(att)
        ra == parseRetryAfter(hdr, t)
    IN  IF status = 429 /\ ra # -1 THEN Max2(waitMs, ra) ELSE waitMs

\* mutant: one timeout window for the whole call, which starts at time 0
timerDeadlinePerCall(t) == cfg.timeoutMs

\* the timeout armed by setTimeout(() => attemptController.abort(), timeoutMs)
timerDeadline(t) == t + cfg.timeoutMs

\* mutant: the catch block does not look at the caller's signal
callerCancelledIgnored(aborted) == FALSE

\* callerSignal?.aborted in the catch block
callerCancelled(aborted) == cfg.hasSignal /\ aborted

createUserFriendlyError(msg, totalAttempts) ==
    CASE msg = AbortMsg -> "timed out"
      [] msg = "failed to fetch" -> "unable to connect"
      [] msg = "too many requests" -> "server busy"
      [] msg = "internal server error" -> "server error"
      [] OTHER -> "request failed"

\* the signal passed to fetch for attempt `a`
signalAborted(a, cAborted, aborted) ==
    IF cfg.hasSignal /\ cfg.hasAny
    THEN aborted \/ a \in cAborted
    ELSE a \in cAborted

-----------------------------------------------------------------------------
(* Bookkeeping of outcomes, as the fetch contract classifies them *)

IsRetryableStatus(status) == status = 429 \/ status \in 500..599

Outcome(kind, status, hdr, a, start) ==
    [kind |-> kind, status |-> status, hdr |-> hdr, at |-> now, start |-> start, att |-> a]

-----------------------------------------------------------------------------
(* fetchWithRetry: the catch block, lines 121-138 *)
catchBlock(a, msg, kind, aborted, start) ==
    /\ timers' = {t \in timers : t.att # a}
    /\ prev' = Outcome(kind, 0, NoHdr, a, start)
    /\ retryableSeen' = IF kind \in {"error", "timeout"}
                        THEN retryableSeen + 1 ELSE retryableSeen
    /\ IF callerCancelled(aborted)
       THEN /\ fpc' = "thrown"
            /\ result' = [kind |-> "cancelled", status |-> 0, msg |-> "request was cancelled"]
            /\ UNCHANGED wakeAt
       ELSE IF a < cfg.retries
       THEN /\ fpc' = "sleeping"
            /\ wakeAt' = now + backoff(a)
            /\ UNCHANGED result
       ELSE /\ fpc' = "thrown"
            /\ result' = [kind |-> "error", status |-> 0,
                          msg |-> createUserFriendlyError(msg, a + 1)]
            /\ UNCHANGED wakeAt

(* fetchWithRetry: one pass of the loop from its top to the call of fetch,
   lines 79-102. A fetch given an already aborted signal rejects at once and
   sends nothing. *)
enterAttempt(a) ==
    LET fallback == cfg.hasSignal /\ ~cfg.hasAny
        cAb == IF fallback /\ callerAborted THEN ctrlAborted \cup {a} ELSE ctrlAborted
        lis == IF fallback /\ ~callerAborted THEN listeners \cup {a} ELSE listeners
    IN  /\ attempt' = a
        /\ attemptStart' = now
        /\ ctrlAborted' = cAb
        /\ listeners' = lis
        /\ IF signalAborted(a, cAb, callerAborted)
           THEN /\ catchBlock(a, AbortMsg, "abort", callerAborted, now)
                /\ UNCHANGED requests
           ELSE /\ requests' = requests + 1
                /\ fpc' = "inflight"
                /\ timers' = timers \cup {[att |-> a, at |-> timerDeadline(now)]}
                /\ UNCHANGED <<wakeAt, retryableSeen, prev, result>>

Call ==
    /\ UNCHANGED nonFetchVars
    /\ fpc = "init"
    /\ enterAttempt(0)
    /\ UNCHANGED <<cfg, now, callerAborted, sleeps, adapterResult>>

(* fetch resolves with a response: lines 102-120 *)
Respond(status, hdr) ==
    /\ UNCHANGED nonFetchVars
    /\ fpc = "inflight"
    /\ ~signalAborted(attempt, ctrlAborted, callerAborted)
    /\ prev' = Outcome("response", status, hdr, attempt, attemptStart)
    /\ retryableSeen' = IF IsRetryableStatus(status)
                        THEN retryableSeen + 1 ELSE retryableSeen
    /\ timers' = {t \in timers : t.att # attempt}
    /\ IF shouldRetry(status) /\ attempt < cfg.retries
       THEN /\ fpc' = "sleeping"
            /\ wakeAt' = now + waitAfterResponse(status, hdr, attempt, now)
            /\ UNCHANGED result
       ELSE /\ fpc' = "returned"
            /\ result' = [kind |-> "response", status |-> status, msg |-> ""]
            /\ UNCHANGED wakeAt
    /\ UNCHANGED <<cfg, attempt, now, attemptStart, ctrlAborted, listeners,
                   callerAborted, requests, sleeps, adapterResult>>

(* fetch rejects with a network error *)
NetworkError(msg) ==
    /\ UNCHANGED nonFetchVars
    /\ fpc = "inflight"
    /\ ~signalAborted(attempt, ctrlAborted, callerAborted)
    /\ catchBlock(attempt, msg, "error", callerAborted, attemptStart)
    /\ UNCHANGED <<cfg, attempt, now, attemptStart, ctrlAborted, listeners,
                   callerAborted, requests, sleeps, adapterResult>>

(* a timer armed at line 82 fires and aborts its own attemptController *)
TimerFire ==
    /\ UNCHANGED nonFetchVars
    /\ \E t \in timers :
        /\ now >= t.at
        /\ ctrlAborted' = ctrlAborted \cup {t.att}
        /\ IF fpc = "inflight" /\ t.att = attempt
           THEN catchBlock(attempt, AbortMsg, "timeout", callerAborted, attemptStart)
           ELSE /\ timers' = timers \ {t}
                /\ UNCHANGED <<fpc, wakeAt, retryableSeen, prev, result>>
        /\ UNCHANGED <<cfg, attempt, now, attemptStart, listeners, callerAborted,
                       requests, sleeps, adapterResult>>

(* the caller aborts its signal while the call is running *)
CallerAbort ==
    /\ UNCHANGED nonFetchVars
    /\ cfg.hasSignal
    /\ ~callerAborted
    /\ fpc \in {"inflight", "sleeping"}
    /\ callerAborted' = TRUE
    /\ LET cAb == IF cfg.hasAny THEN ctrlAborted ELSE ctrlAborted \cup listeners
       IN  /\ ctrlAborted' = cAb
           /\ listeners' = IF cfg.hasAny THEN listeners ELSE {}
           /\ IF fpc = "inflight" /\ signalAborted(attempt, cAb, TRUE)
              THEN catchBlock(attempt, AbortMsg, "abort", TRUE, attemptStart)
              ELSE UNCHANGED <<fpc, wakeAt, timers, retryableSeen, prev, result>>
    /\ UNCHANGED <<cfg, attempt, now, attemptStart, requests, sleeps, adapterResult>>

(* sleep(waitMs) resolves and the loop continues: lines 115-116, 131-132 *)
Wake ==
    /\ UNCHANGED nonFetchVars
    /\ fpc = "sleeping"
    /\ now >= wakeAt
    /\ sleeps' = sleeps + 1
    /\ enterAttempt(attempt + 1)
    /\ UNCHANGED <<cfg, now, callerAborted, adapterResult>>

(* time passes, never beyond the next armed timer or pending wake-up *)
Events ==
    {t.at : t \in timers} \cup (IF fpc = "sleeping" THEN {wakeAt} ELSE {})

Advance ==
    /\ UNCHANGED nonFetchVars
    /\ fpc \in {"inflight", "sleeping"}
    /\ \E t \in {now + StepMs} \cup Events :
        /\ t > now
        /\ \A e \in Events : t <= e
        /\ now' = t
    /\ UNCHANGED <<cfg, fpc, attempt, attemptStart, wakeAt, timers, ctrlAborted,
                   listeners, callerAborted, requests, sleeps, retryableSeen, prev,
                   result, adapterResult>>

(* greenhouseAdapter / webAdapter after `await fetchWithRetry(...)` *)
adapterOutcome(pcNow, res, bodyOk) ==
    IF pcNow = "thrown" THEN "raised"
    ELSE IF ~ResOk(res.status) THEN "null"
    ELSE IF bodyOk THEN "job" ELSE "raised"

AdapterFinish ==
    /\ UNCHANGED nonFetchVars
    /\ cfg.caller \in {"greenhouse", "web"}
    /\ fpc \in {"returned", "thrown"}
    /\ adapterResult = "pending"
    /\ \E bodyOk \in BOOLEAN : adapterResult' = adapterOutcome(fpc, result, bodyOk)
    /\ UNCHANGED <<cfg, fpc, attempt, now, attemptStart, wakeAt, timers, ctrlAborted,
                   listeners, callerAborted, requests, sleeps, retryableSeen, prev, result>>

-----------------------------------------------------------------------------
(* Calls the model explores *)

DirectConfigs ==
    [caller : {"direct"}, retries : 0..MaxRetries, baseDelayMs : {DefaultBaseDelayMs},
     maxBackoffMs : {DefaultMaxBackoffMs, SmallMaxBackoffMs},
     timeoutMs : {DefaultTimeoutMs}, hasSignal : BOOLEAN, hasAny : BOOLEAN]

AdapterConfigs ==
    [caller : {"greenhouse", "web"}, retries : {AdapterRetries},
     baseDelayMs : {AdapterBaseDelayMs}, maxBackoffMs : {DefaultMaxBackoffMs},
     timeoutMs : {AdapterTimeoutMs}, hasSignal : {FALSE}, hasAny : {TRUE}]

FetchInit ==
    /\ cfg \in {c \in DirectConfigs : c.hasSignal \/ c.hasAny} \cup AdapterConfigs
    /\ fpc = "init"
    /\ attempt = 0
    /\ now = 0
    /\ attemptStart = 0
    /\ wakeAt = 0
    /\ timers = {}
    /\ ctrlAborted = {}
    /\ listeners = {}
    /\ callerAborted \in (IF cfg.hasSignal THEN BOOLEAN ELSE {FALSE})
    /\ requests = 0
    /\ sleeps = 0
    /\ retryableSeen = 0
    /\ prev = NoOutcome
    /\ result = NoResult
    /\ adapterResult = "pending"
    /\ PolicyIdle
    /\ RobotsIdle
    /\ FinalizeIdle /\ SalaryIdle /\ ScoreIdle /\ ReqIdle /\ LockIdle /\ StoreIdle

FetchNext ==
    \/ Call
    \/ \E s \in Statuses :
         \E h \in RetryAfterHeaders(s, now) :
            Respond(s, h)
    \/ \E m \in NetErrors : NetworkError(m)
    \/ TimerFire
    \/ CallerAbort
    \/ Wake
    \/ Advance
    \/ AdapterFinish

SpecFetch == FetchInit /\ [][FetchNext]_vars

-----------------------------------------------------------------------------
(* Properties of fetchWithRetry and the adapters, checked under SpecFetch *)

FetchDone == fpc \in {"returned", "thrown"}

\* C1: once the caller's signal is aborted no further request is issued, no
\* attempt is in flight, and the call can only end with the cancelled failure,
\* whether the abort came during a request or during a backoff sleep.
C1_NoRetryAfterCancel ==
    [][ /\ callerAborted => requests' = requests
        /\ callerAborted' => fpc' # "inflight"
        /\ (callerAborted' /\ fpc' \in {"returned", "thrown"}) => result'.kind = "cancelled"
        /\ (callerAborted /\ fpc = "sleeping" /\ fpc' # "sleeping") => fpc' = "thrown"
      ]_vars

\* the abort arrived during a backoff sleep: the attempt after it sent nothing
C1_Witness ==
    /\ fpc = "thrown"
    /\ result.kind = "cancelled"
    /\ attempt >= 1
    /\ sleeps = attempt
    /\ requests = attempt

\* C2: k <= r retryable outcomes followed by a response that is neither 429
\* nor 5xx: that response is returned after exactly k+1 requests (and k
\* sleeps); never more than r+1 requests are issued.
C2_ReturnsAfterKPlusOne ==
    /\ requests <= cfg.retries + 1
    /\ (prev.kind = "response" /\ ~IsRetryableStatus(prev.status)) =>
          /\ fpc = "returned"
          /\ result = [kind |-> "response", status |-> prev.status, msg |-> ""]
          /\ retryableSeen <= cfg.retries
          /\ requests = retryableSeen + 1
          /\ sleeps = retryableSeen

\* two retryable outcomes, then 200, with r = 2
C2_Witness ==
    /\ fpc = "returned"
    /\ cfg.retries = 2
    /\ result.status = 200
    /\ retryableSeen = 2
    /\ requests = 3

\* C3: after a 429 carrying Retry-After: N seconds with attempts remaining,
\* the next attempt does not start before N*1000 ms have passed.
C3_RetryAfterHonoured ==
    (prev.kind = "response" /\ prev.status = 429 /\ prev.hdr.t = "sec"
        /\ prev.att < cfg.retries) =>
          /\ attempt = prev.att => fpc = "sleeping"
          /\ attempt > prev.att => attemptStart - prev.at >= prev.hdr.n * 1000

\* Retry-After: 2 while the computed backoff is smaller than 2000 ms
C3_Witness ==
    /\ prev.kind = "response" /\ prev.status = 429 /\ prev.hdr = SecHdr(2)
    /\ attempt = prev.att + 1
    /\ fpc = "inflight"
    /\ backoff(prev.att) < 2000
    /\ attemptStart - prev.at = 2000

\* the call sleeps after a retryable response that carried a usable Retry-After
SleepsAfterHint ==
    /\ fpc = "sleeping" /\ prev.kind = "response" /\ prev.att = attempt
    /\ IsRetryableStatus(prev.status)
    /\ parseRetryAfter(prev.hdr, prev.at) # -1

\* C23: after every retryable response (429 or 5xx) with a retry-after hint and
\* attempts remaining, the sleep is the larger of the capped backoff and the hint.
C23_HintOnEveryRetryable ==
    SleepsAfterHint =>
        wakeAt - prev.at = Max2(backoff(prev.att), parseRetryAfter(prev.hdr, prev.at))

\* C4: every armed timer belongs to the attempt in flight and expires
\* timeoutMs after that attempt started; an attempt ends by timeout only after
\* it has itself been in flight for timeoutMs.
C4_FreshTimeoutPerAttempt ==
    /\ \A t \in timers :
          /\ fpc = "inflight"
          /\ t.att = attempt
          /\ t.at = attemptStart + cfg.timeoutMs
    /\ prev.kind = "timeout" => prev.at - prev.start >= cfg.timeoutMs

\* a later attempt timed out after its own full window, time having passed before it
C4_Witness ==
    /\ prev.kind = "timeout"
    /\ prev.att >= 1
    /\ prev.start > 0
    /\ prev.at - prev.start = cfg.timeoutMs

\* C10: on every unrecoverable fetch failure (final non-success status, or
\* the fetcher failing after its retries are used up) the adapter returns null.
C10_AdaptersReturnNull ==
    (/\ cfg.caller \in {"greenhouse", "web"}
     /\ adapterResult # "pending"
     /\ \/ fpc = "thrown"
        \/ (fpc = "returned" /\ ~ResOk(result.status)))
        => adapterResult = "null"

-----------------------------------------------------------------------------
(* robots.txt: strings.  A path is a sequence of tokens; "/" is one token and
   no other token contains it, so String.startsWith is the prefix relation on
   token sequences.  A line is the directive name, lower-cased, with its
   trimmed value: `val` for User-agent and Sitemap, `path` for Allow and
   Disallow. *)

IsPrefix(pre, str) == Len(pre) <= Len(str) /\ SubSeq(str, 1, Len(pre)) = pre

\* String.toLowerCase on the agent names used
Lower(a) ==
    CASE a = "JobBot" -> "jobbot"
      [] a = "JobBusters" -> "jobbusters"
      [] OTHER -> a

Line(key, val, path) == [key |-> key, val |-> val, path |-> path]

EmptyPolicy == [allows |-> <<>>, disallows |-> <<>>]

normPathPrefix(raw) ==
    IF raw = <<>> THEN <<"/">>
    ELSE IF Head(raw) # "/" THEN <<"/">> \o raw
    ELSE raw

NewGroup(agents) ==
    [agents |-> agents, allows |-> <<>>, disallows |-> <<>>, sitemaps |-> <<>>]

\* `cur` is always the group pushed last; it is null while `groups` is empty
withImplicitGroup(groups) ==
    IF groups = <<>> THEN <<NewGroup(<<"*">>)>> ELSE groups

setCur(groups, g) == [groups EXCEPT ![Len(groups)] = g]

\* one pass of the loop over lines in parseRobotsTxt
parseLine(groups, line) ==
    CASE line.key = "user-agent" ->
            LET gs == IF groups = <<>> \/ Len(groups[Len(groups)].agents) > 0
                      THEN Append(groups, NewGroup(<<>>))
                      ELSE groups
                cur == gs[Len(gs)]
            IN  IF line.val # ""
                THEN setCur(gs, [cur EXCEPT !.agents = Append(@, line.val)])
                ELSE gs
      [] line.key = "allow" ->
            LET gs == withImplicitGroup(groups)
                cur == gs[Len(gs)]
                v == IF line.path = <<>> THEN <<"/">> ELSE line.path
            IN  setCur(gs, [cur EXCEPT !.allows = Append(@, normPathPrefix(v))])
      [] line.key = "disallow" ->
            LET gs == withImplicitGroup(groups)
                cur == gs[Len(gs)]
            IN  IF line.path # <<>>
                THEN setCur(gs, [cur EXCEPT !.disallows = Append(@, normPathPrefix(line.path))])
                ELSE gs
      [] line.key = "sitemap" ->
            LET gs == withImplicitGroup(groups)
                cur == gs[Len(gs)]
            IN  IF line.val # ""
                THEN setCur(gs, [cur EXCEPT !.sitemaps = Append(@, line.val)])
                ELSE gs
      [] OTHER -> groups

RECURSIVE parseFrom(_, _)
parseFrom(groups, lines) ==
    IF lines = <<>> THEN groups
    ELSE parseFrom(parseLine(groups, Head(lines)), Tail(lines))

parseRobotsTxt(text) == parseFrom(<<>>, text)

\* index of the first group satisfying P, 0 when there is none
firstGroup(groups, P(_)) ==
    LET S == {i \in 1..Len(groups) : P(groups[i])}
    IN  IF S = {} THEN 0 ELSE SetMin(S)

hasAgent(g, needle) == \E i \in 1..Len(g.agents) : Lower(g.agents[i]) = needle
hasWildcard(g) == \E i \in 1..Len(g.agents) : g.agents[i] = "*"

\* mutant: the wildcard group is preferred over the exact match
pickAgentGroupWildcardFirst(groups, ua) ==
    LET needle == Lower(ua)
        wild == firstGroup(groups, hasWildcard)
    IN  IF wild # 0 THEN wild
        ELSE firstGroup(groups, LAMBDA g : hasAgent(g, needle))

\* the index of the chosen group, 0 for null
pickAgentGroup(groups, ua) ==
    LET needle == Lower(ua)
        exact == firstGroup(groups, LAMBDA g : hasAgent(g, needle))
    IN  IF exact # 0 THEN exact
        ELSE firstGroup(groups, hasWildcard)

\* fetchRobots, lines 1007-1010
effectiveOf(groups, chosen) ==
    IF chosen # 0
    THEN [allows |-> groups[chosen].allows, disallows |-> groups[chosen].disallows]
    ELSE EmptyPolicy

\* the two loops of isAllowedByRobots
RECURSIVE longestMatch(_, _, _)
longestMatch(prefixes, path, longest) ==
    IF prefixes = <<>> THEN longest
    ELSE LET a == Head(prefixes)
         IN  longestMatch(Tail(prefixes), path,
                          IF IsPrefix(a, path) /\ Len(a) > longest THEN Len(a) ELSE longest)

\* mutant: a tie goes to Disallow
isAllowedByRobotsTieDenies(path, effective) ==
    LET longestAllow == longestMatch(effective.allows, path, -1)
        longestDisallow == longestMatch(effective.disallows, path, -1)
    IN  IF longestAllow < 0 /\ longestDisallow < 0 THEN TRUE
        ELSE longestAllow > longestDisallow

isAllowedByRobots(path, effective) ==
    LET longestAllow == longestMatch(effective.allows, path, -1)
        longestDisallow == longestMatch(effective.disallows, path, -1)
    IN  IF longestAllow < 0 /\ longestDisallow < 0 THEN TRUE
        ELSE IF longestAllow > longestDisallow THEN TRUE
        ELSE IF longestDisallow > longestAllow THEN FALSE
        ELSE TRUE

-----------------------------------------------------------------------------
(* The policy functions applied to one robots.txt, user agent and path *)

MaxLines == 4

PolicyLines ==
    {Line("user-agent", "*", <<>>), Line("user-agent", "JobBot", <<>>),
     Line("user-agent", "otherbot", <<>>),
     Line("allow", "", <<"/", "a">>), Line("allow", "", <<>>),
     Line("disallow", "", <<"/", "a">>), Line("disallow", "", <<"/", "a", "/", "b">>),
     Line("disallow", "", <<>>)}

PolicyTexts == UNION {[1..n -> PolicyLines] : n \in 0..MaxLines}

PolicyAgents == {"jobbot", "jobbusters"}

PolicyPaths == {<<"/">>, <<"/", "a", "/", "x">>, <<"/", "a", "/", "b", "/", "c">>}

PolicyInit ==
    /\ ppc = "input"
    /\ ptext \in PolicyTexts
    /\ pua \in PolicyAgents
    /\ ppath \in PolicyPaths
    /\ pgroups = <<>>
    /\ pchosen = 0
    /\ peffective = EmptyPolicy
    /\ pallowed = FALSE
    /\ FetchIdle
    /\ RobotsIdle
    /\ FinalizeIdle /\ SalaryIdle /\ ScoreIdle /\ ReqIdle /\ LockIdle /\ StoreIdle

Parse ==
    /\ ppc = "input"
    /\ pgroups' = parseRobotsTxt(ptext)
    /\ ppc' = "parsed"
    /\ UNCHANGED <<ptext, pua, ppath, pchosen, peffective, pallowed>>
    /\ UNCHANGED nonPolicyVars

Pick ==
    /\ ppc = "parsed"
    /\ pchosen' = pickAgentGroup(pgroups, pua)
    /\ peffective' = effectiveOf(pgroups, pchosen')
    /\ ppc' = "picked"
    /\ UNCHANGED <<ptext, pua, ppath, pgroups, pallowed>>
    /\ UNCHANGED nonPolicyVars

Evaluate ==
    /\ ppc = "picked"
    /\ pallowed' = isAllowedByRobots(ppath, peffective)
    /\ ppc' = "evaluated"
    /\ UNCHANGED <<ptext, pua, ppath, pgroups, pchosen, peffective>>
    /\ UNCHANGED nonPolicyVars

PolicyNext == Parse \/ Pick \/ Evaluate

SpecPolicy == PolicyInit /\ [][PolicyNext]_vars

-----------------------------------------------------------------------------
(* Properties of the policy functions, checked under SpecPolicy *)

\* length of the longest prefix in `prefixes` that `path` starts with, -1 for none
LongestPrefix(prefixes, path) ==
    LET lens == {Len(prefixes[i]) : i \in {j \in 1..Len(prefixes) : IsPrefix(prefixes[j], path)}}
    IN  IF lens = {} THEN -1 ELSE CHOOSE n \in lens : \A m \in lens : m <= n

\* C5: the path is allowed exactly when its longest matching Allow prefix is
\* at least as long as its longest matching Disallow prefix (-1 for no match).
C5_LongestMatchWins ==
    ppc = "evaluated" =>
        (pallowed <=> LongestPrefix(peffective.allows, ppath)
                        >= LongestPrefix(peffective.disallows, ppath))

\* an Allow prefix matches, a strictly longer Disallow prefix denies
C5_Witness ==
    /\ ppc = "evaluated"
    /\ ~pallowed
    /\ LongestPrefix(peffective.allows, ppath) >= 0
    /\ LongestPrefix(peffective.disallows, ppath) > LongestPrefix(peffective.allows, ppath)

ExactGroups == {i \in 1..Len(pgroups) :
                  \E k \in 1..Len(pgroups[i].agents) : Lower(pgroups[i].agents[k]) = Lower(pua)}
WildcardGroups == {i \in 1..Len(pgroups) :
                  \E k \in 1..Len(pgroups[i].agents) : pgroups[i].agents[k] = "*"}
RulesOf(g) == [allows |-> g.allows, disallows |-> g.disallows]

\* C6: with a group naming the agent the effective policy is that group's,
\* whatever a wildcard group says; the wildcard group is used only without an
\* exact match; with neither the effective policy is empty.
C6_ExactGroupPreferred ==
    ppc \in {"picked", "evaluated"} =>
        /\ ExactGroups # {} =>
              pchosen \in ExactGroups /\ peffective = RulesOf(pgroups[pchosen])
        /\ (ExactGroups = {} /\ WildcardGroups # {}) =>
              pchosen \in WildcardGroups /\ peffective = RulesOf(pgroups[pchosen])
        /\ (ExactGroups = {} /\ WildcardGroups = {}) =>
              pchosen = 0 /\ peffective = EmptyPolicy

\* exact group (written in another case) forbids the path, the wildcard group has no rule
C6_Witness ==
    /\ ppc = "evaluated"
    /\ pua = "jobbot"
    /\ ExactGroups # {}
    /\ \E w \in WildcardGroups : w \notin ExactGroups /\ pgroups[w].disallows = <<>>
    /\ ~pallowed

-----------------------------------------------------------------------------
(* The robots gate with its cache, and scrapeJobFromUrl.  A host name is the
   sequence of its labels; a trailing dot is a last, empty label.  Every call
   runs to its next await in one step.  The fetchedAt stamp of a profile is
   left out: nothing reads it. *)

NumProcs == 2
Procs == 1..NumProcs

DENYLIST_HOSTS ==
    {<<"indeed", "com">>, <<"www", "indeed", "com">>,
     <<"ziprecruiter", "com">>, <<"www", "ziprecruiter", "com">>,
     <<"glassdoor", "com">>, <<"www", "glassdoor", "com">>,
     <<"linkedin", "com">>, <<"www", "linkedin", "com">>,
     <<"monster", "com">>, <<"www", "monster", "com">>,
     <<"careerbuilder", "com">>, <<"www", "careerbuilder", "com">>}

\* host ends with "." + suffix
endsWithDot(host, suffix) ==
    /\ Len(host) > Len(suffix)
    /\ SubSeq(host, Len(host) - Len(suffix) + 1, Len(host)) = suffix

hostOf(u) ==
    LET h == u.hostname
    IN  IF Len(h) > 0 /\ h[Len(h)] = "" THEN SubSeq(h, 1, Len(h) - 1) ELSE h

\* mutant: only the exact host is looked up
isDeniedHostExactOnly(u) == hostOf(u) \in DENYLIST_HOSTS

isDeniedHost(u) ==
    LET h == hostOf(u)
    IN  \/ h \in DENYLIST_HOSTS
        \/ \E bad \in DENYLIST_HOSTS : h = bad \/ endsWithDot(h, bad)

isGreenhouseBoards(u) ==
    LET h == hostOf(u)
    IN  \/ h = <<"boards", "greenhouse", "io">>
        \/ endsWithDot(h, <<"boards", "greenhouse", "io">>)
        \/ h = <<"job-boards", "greenhouse", "io">>
        \/ endsWithDot(h, <<"job-boards", "greenhouse", "io">>)

RECURSIVE splitPath(_, _, _)
splitPath(path, cur, acc) ==
    IF path = <<>> THEN Append(acc, cur)
    ELSE IF Head(path) = "/" THEN splitPath(Tail(path), <<>>, Append(acc, cur))
    ELSE splitPath(Tail(path), Append(cur, Head(path)), acc)

IsDigits(seg) ==
    seg # <<>> /\ \A i \in 1..Len(seg) : seg[i] \in {"0", "1", "2", "3", "4", "5", "6", "7", "8", "9"}

\* the pathname matches /^\/([^/]+)\/jobs\/(\d+)(?:\/|$)/
parseGreenhouseTenantAndJob(u) ==
    LET segs == splitPath(u.path, <<>>, <<>>)
    IN  /\ Len(segs) >= 4
        /\ segs[1] = <<>>
        /\ segs[2] # <<>>
        /\ segs[3] = <<"jobs">>
        /\ IsDigits(segs[4])

originOf(u) == u.hostname

DefaultAgent == "jobbusters"

NoProfile == [origin |-> <<>>, groups |-> <<>>, effective |-> EmptyPolicy]

\* mutant: fetchRobots never finds a cached profile
cacheGetNever(cache, origin) == NoProfile

cacheGet(cache, origin) == cache[origin]

\* mutant: an unreachable robots.txt forbids everything
failProfileClosed(origin) ==
    [origin |-> origin, groups |-> <<>>,
     effective |-> [allows |-> <<>>, disallows |-> << <<"/">> >>]]

\* the profile built at lines 983-988 and 994-999
failProfile(origin) ==
    [origin |-> origin, groups |-> <<>>, effective |-> EmptyPolicy]

\* lines 1004-1017
parsedProfile(origin, text, ua) ==
    LET groups == parseRobotsTxt(text)
        chosen == pickAgentGroup(groups, ua)
    IN  [origin |-> origin, groups |-> groups,
         effective |-> effectiveOf(groups, chosen)]

\* canFetchUrl after fetchRobots, and the rest of scrapeJobFromUrl up to the
\* adapter's request
afterRobots(c, profile) ==
    LET allowed == isAllowedByRobots(c.url.path, profile.effective)
    IN  IF c.entry = "canFetch"
        THEN [pc |-> "done", outcome |-> IF allowed THEN "allowed" ELSE "disallowed",
              adapter |-> "none", page |-> 0]
        ELSE IF ~allowed
        THEN [pc |-> "done", outcome |-> "robots_denied", adapter |-> "none", page |-> 0]
        ELSE [pc |-> "adapter_wait", outcome |-> "none",
              adapter |-> IF isGreenhouseBoards(c.url) /\ parseGreenhouseTenantAndJob(c.url)
                          THEN "greenhouse" ELSE "web",
              page |-> 1]

proceed(p, c, profile) ==
    LET g == afterRobots(c, profile)
    IN  /\ rprof' = [rprof EXCEPT ![p] = profile]
        /\ rpc' = [rpc EXCEPT ![p] = g.pc]
        /\ routcome' = [routcome EXCEPT ![p] = g.outcome]
        /\ radapter' = [radapter EXCEPT ![p] = g.adapter]
        /\ reqPage' = [reqPage EXCEPT ![p] = @ + g.page]

stop(p, outcome) ==
    /\ rpc' = [rpc EXCEPT ![p] = "done"]
    /\ routcome' = [routcome EXCEPT ![p] = outcome]
    /\ UNCHANGED <<rprof, radapter, reqPage>>

(* scrapeJobFromUrl(urlStr), or canFetchUrl(pageUrl, opts) called directly,
   up to the first await *)
Start(p, entry, url, ua) ==
    /\ rpc[p] = "idle"
    /\ \A q \in Procs : q < p => rpc[q] # "idle"
    /\ LET c == [entry |-> entry, url |-> url, ua |-> ua]
       IN  /\ rcall' = [rcall EXCEPT ![p] = c]
           /\ IF entry = "scrape" /\ ~url.valid
              THEN /\ stop(p, "invalid_url")
                   /\ UNCHANGED <<reqRobots, rsawCache>>
              ELSE IF entry = "scrape" /\ isDeniedHost(url)
              THEN /\ stop(p, "aggregator")
                   /\ UNCHANGED <<reqRobots, rsawCache>>
              ELSE LET cached == cacheGet(robotsCache, originOf(url))
                   IN  /\ rsawCache' = [rsawCache EXCEPT ![p] =
                                            robotsCache[originOf(url)] # NoProfile]
                       /\ IF cached # NoProfile
                          THEN /\ proceed(p, c, cached)
                               /\ UNCHANGED reqRobots
                          ELSE /\ reqRobots' = [reqRobots EXCEPT ![p] = @ + 1]
                               /\ rpc' = [rpc EXCEPT ![p] = "robots_wait"]
                               /\ UNCHANGED <<rprof, routcome, radapter, reqPage>>
    /\ UNCHANGED <<robotsCache, rfail>>
    /\ UNCHANGED nonRobotsVars

\* the branch of fetchRobots a settled request takes: res.ok, the else branch
\* for another status, or the catch block for a rejected fetch
branchOf(kind) ==
    CASE kind = "ok" -> "ok"
      [] kind = "status" -> "status"
      [] OTHER -> "error"

(* fetchWithTimeout settles: a response with res.ok, a response with another
   status, a network error, or the abort by the timeout *)
RobotsHeaders(p, kind) ==
    /\ rpc[p] = "robots_wait"
    /\ rfail' = [rfail EXCEPT ![p] = branchOf(kind)]
    /\ IF kind = "ok"
       THEN /\ rpc' = [rpc EXCEPT ![p] = "robots_body"]
            /\ UNCHANGED <<robotsCache, rprof, routcome, radapter, reqPage>>
       ELSE LET o == originOf(rcall[p].url)
                profile == failProfile(o)
            IN  /\ robotsCache' = [robotsCache EXCEPT ![o] = profile]
                /\ proceed(p, rcall[p], profile)
    /\ UNCHANGED <<rcall, reqRobots, rsawCache>>
    /\ UNCHANGED nonRobotsVars

(* res.text() resolves: lines 980, 1004-1020 *)
RobotsBody(p, text) ==
    /\ rpc[p] = "robots_body"
    /\ LET o == originOf(rcall[p].url)
           profile == parsedProfile(o, text, rcall[p].ua)
       IN  /\ robotsCache' = [robotsCache EXCEPT ![o] = profile]
           /\ proceed(p, rcall[p], profile)
    /\ UNCHANGED <<rcall, reqRobots, rfail, rsawCache>>
    /\ UNCHANGED nonRobotsVars

(* res.text() rejects: the catch at lines 992-1002 *)
RobotsBodyFail(p) ==
    /\ rpc[p] = "robots_body"
    /\ rfail' = [rfail EXCEPT ![p] = branchOf("body")]
    /\ LET o == originOf(rcall[p].url)
           profile == failProfile(o)
       IN  /\ robotsCache' = [robotsCache EXCEPT ![o] = profile]
           /\ proceed(p, rcall[p], profile)
    /\ UNCHANGED <<rcall, reqRobots, rsawCache>>
    /\ UNCHANGED nonRobotsVars

(* the adapter settles and scrapeJobFromUrl passes on what it gave: a job,
   null or an exception (the adapters are modelled with fetchWithRetry) *)
AdapterDone(p) ==
    /\ rpc[p] = "adapter_wait"
    /\ rpc' = [rpc EXCEPT ![p] = "done"]
    /\ routcome' = [routcome EXCEPT ![p] = "adapter_result"]
    /\ UNCHANGED <<robotsCache, rcall, rprof, radapter, reqRobots, reqPage,
                   rfail, rsawCache>>
    /\ UNCHANGED nonRobotsVars

-----------------------------------------------------------------------------
(* Inputs of the robots gate *)

Url(valid, hostname, path) == [valid |-> valid, hostname |-> hostname, path |-> path]

ExampleUrls ==
    {Url(TRUE, <<"example", "com">>, <<"/", "a", "/", "b">>),
     Url(TRUE, <<"example", "com">>, <<"/", "c">>)}

CanFetchUrls == {Url(TRUE, <<"example", "com">>, <<"/", "a", "/", "b">>)}

ScrapeUrls ==
    ExampleUrls \cup
    {Url(FALSE, <<>>, <<>>),
     Url(TRUE, <<"indeed", "com">>, <<"/", "a">>),
     Url(TRUE, <<"m", "linkedin", "com", "">>, <<"/", "a">>),
     Url(TRUE, <<"boards", "greenhouse", "io">>, <<"/", "acme", "/", "jobs", "/", "1">>)}

Origins == {originOf(u) : u \in {v \in ScrapeUrls : v.valid}}

RobotsSamples ==
    {<<Line("user-agent", "*", <<>>), Line("disallow", "", <<"/", "a">>)>>,
     <<Line("user-agent", "JobBusters", <<>>), Line("disallow", "", <<"/">>),
       Line("user-agent", "*", <<>>), Line("allow", "", <<>>)>>,
     <<Line("sitemap", "sitemap.xml", <<>>), Line("crawl-delay", "1", <<>>),
       Line("disallow", "", <<"c">>)>>}

NoCall == [entry |-> "none", url |-> Url(FALSE, <<>>, <<>>), ua |-> ""]

RobotsInit ==
    /\ robotsCache = [o \in Origins |-> NoProfile]
    /\ rpc = [p \in Procs |-> "idle"]
    /\ rcall = [p \in Procs |-> NoCall]
    /\ rprof = [p \in Procs |-> NoProfile]
    /\ routcome = [p \in Procs |-> "none"]
    /\ radapter = [p \in Procs |-> "none"]
    /\ reqRobots = [p \in Procs |-> 0]
    /\ reqPage = [p \in Procs |-> 0]
    /\ rfail = [p \in Procs |-> "none"]
    /\ rsawCache = [p \in Procs |-> FALSE]
    /\ FetchIdle
    /\ PolicyIdle
    /\ FinalizeIdle /\ SalaryIdle /\ ScoreIdle /\ ReqIdle /\ LockIdle /\ StoreIdle

RobotsNext ==
    \/ \E p \in Procs, u \in ScrapeUrls : Start(p, "scrape", u, DefaultAgent)
    \/ \E p \in Procs, u \in CanFetchUrls, ua \in {DefaultAgent, "otherbot"} :
          Start(p, "canFetch", u, ua)
    \/ \E p \in Procs, k \in {"ok", "status", "network", "timeout"} : RobotsHeaders(p, k)
    \/ \E p \in Procs, t \in RobotsSamples : RobotsBody(p, t)
    \/ \E p \in Procs : RobotsBodyFail(p)
    \/ \E p \in Procs : AdapterDone(p)

SpecRobots == RobotsInit /\ [][RobotsNext]_vars

-----------------------------------------------------------------------------
(* Properties of the robots gate and scrapeJobFromUrl, checked under SpecRobots *)

RobotsFailures == {"status", "error"}

\* C7: a robots.txt request that ends in a non-success status, a network
\* failure or a timeout gives the call the empty allow-all policy: the path is
\* allowed and the gate raises nothing.
C7_FailOpen ==
    \A p \in Procs :
        rfail[p] \in RobotsFailures =>
            /\ rprof[p].groups = <<>>
            /\ rprof[p].effective = EmptyPolicy
            /\ robotsCache[originOf(rcall[p].url)] # NoProfile
            /\ routcome[p] \notin {"robots_denied", "disallowed"}
            /\ rcall[p].entry = "canFetch" => routcome[p] = "allowed"
            /\ rcall[p].entry = "scrape" => reqPage[p] = 1

\* the same URL and agent: refused when robots.txt was read, allowed when the request failed
C7_Witness ==
    \E p, q \in Procs :
        /\ rfail[p] = "status" /\ routcome[p] = "allowed"
        /\ rfail[q] = "ok" /\ routcome[q] = "disallowed"
        /\ rcall[p] = rcall[q]

\* C8 as claimed: once an origin has a cached policy the entry never changes.
C8_AppendOnly ==
    [][\A o \in Origins :
          robotsCache[o] # NoProfile => robotsCache'[o] = robotsCache[o]]_vars

FetchingRobots(p) == rpc[p] \in {"robots_wait", "robots_body"}

\* C8 amended: an entry is never removed, and it is replaced only by a call
\* that had already missed the cache before the entry was first set; a call
\* that begins when the entry exists issues no robots.txt request, receives
\* that entry and leaves the cache unchanged.
C8_ReplacedOnlyByEarlierMiss ==
    [][/\ \A o \in Origins :
            robotsCache[o] # NoProfile =>
               /\ robotsCache'[o] # NoProfile
               /\ robotsCache'[o] # robotsCache[o] =>
                     \E p \in Procs :
                        /\ FetchingRobots(p)
                        /\ originOf(rcall[p].url) = o
                        /\ ~rsawCache[p]
                        /\ rprof'[p] = robotsCache'[o]
       /\ \A p \in Procs :
            (rpc[p] = "idle" /\ rsawCache'[p]) =>
               /\ robotsCache' = robotsCache
               /\ reqRobots'[p] = 0
               /\ rprof'[p] = robotsCache[originOf(rcall'[p].url)]
      ]_vars

\* a call that began after the origin was cached has returned the cached entry
C8_Witness ==
    \E p, q \in Procs :
        /\ p # q
        /\ rsawCache[p] /\ rpc[p] = "done" /\ reqRobots[p] = 0
        /\ reqRobots[q] = 1
        /\ rprof[p] = rprof[q]
        /\ rprof[p] = robotsCache[originOf(rcall[p].url)]

\* the host, or one of its parent domains, is on the denylist
Denylisted(u) ==
    LET h == hostOf(u)
    IN  \E k \in 0..Len(h) : SubSeq(h, k + 1, Len(h)) \in DENYLIST_HOSTS

\* C27: every canFetchUrl decision is the one the robots group selected for that
\* call's own user agent gives, whichever user agent filled the cache.
C27_OwnAgentGroup ==
    \A p \in Procs :
        (rpc[p] = "done" /\ rcall[p].entry = "canFetch") =>
            LET groups == rprof[p].groups
                own == effectiveOf(groups, pickAgentGroup(groups, rcall[p].ua))
            IN  (routcome[p] = "allowed") <=> isAllowedByRobots(rcall[p].url.path, own)

\* C9: denylist, then robots, then adapter: a denylisted host fails with the
\* aggregator message and no request at all; a path robots.txt disallows
\* fails with the robots.txt message and no adapter request; the adapter is
\* requested only for a host not denylisted and a path the policy allows.
C9_GateOrder ==
    \A p \in Procs :
        (rcall[p].entry = "scrape" /\ rcall[p].url.valid) =>
            LET u == rcall[p].url
                allowed == isAllowedByRobots(u.path, rprof[p].effective)
            IN  /\ Denylisted(u) =>
                      routcome[p] = "aggregator" /\ reqRobots[p] = 0 /\ reqPage[p] = 0
                /\ routcome[p] = "aggregator" => Denylisted(u)
                /\ routcome[p] = "robots_denied" =>
                      /\ ~Denylisted(u)
                      /\ rprof[p] # NoProfile /\ ~allowed
                      /\ reqPage[p] = 0
                /\ reqPage[p] > 0 =>
                      ~Denylisted(u) /\ rprof[p] # NoProfile /\ allowed
                /\ (rprof[p] # NoProfile /\ ~allowed) => routcome[p] = "robots_denied"

\* one call stopped by a parent domain on the denylist, one by robots.txt after its request
C9_Witness ==
    \E p, q \in Procs :
        /\ routcome[p] = "aggregator" /\ hostOf(rcall[p].url) \notin DENYLIST_HOSTS
        /\ routcome[q] = "robots_denied" /\ reqRobots[q] = 1 /\ reqPage[q] = 0

-----------------------------------------------------------------------------
(* Salary features.  A numeric field is <<>> when it is null, undefined or  *)
(* absent and <<n>> when it holds the number n; a string field is "none"     *)
(* when it is null, undefined or absent.                                     *)

None == <<>>
Some(n) == <<n>>
Cents(c) == 2 * c
Dollars(d) == 200 * d

\* has(n): typeof n === "number" && Number.isFinite(n)
has(n) == n # None

EmptyFeatures ==
    [salary_min |-> None, salary_mid |-> None, salary_max |-> None,
     currency |-> "none", comp_period |-> "none", salary_source |-> "none"]

\* Math.round(((min + max) / 2) * 100) / 100: the midpoint to the nearest cent,
\* a half cent rounding up (in exact arithmetic)
midpointRounded(min, max) == 2 * ((min + max + 2) \div 4)

\* (min + max) / 2
midpointExact(min, max) == (min + max) \div 2

triple(min, mid, max) == [min |-> min, mid |-> mid, max |-> max]

midBelowMin(s) ==
    IF has(s.min) /\ has(s.mid) /\ s.mid[1] < s.min[1]
    THEN triple(s.mid, None, s.max) ELSE s

midAboveMax(s) ==
    IF has(s.mid) /\ has(s.max) /\ s.mid[1] > s.max[1]
    THEN triple(s.min, None, s.mid) ELSE s

swapNever(s) == s

swapInverted(s) ==
    IF has(s.min) /\ has(s.max) /\ s.min[1] > s.max[1]
    THEN triple(s.max, s.mid, s.min) ELSE s

computeMidRounded(s) ==
    IF ~has(s.mid) /\ has(s.min) /\ has(s.max)
    THEN triple(s.min, Some(midpointRounded(s.min[1], s.max[1])), s.max) ELSE s

computeMidExact(s) ==
    IF ~has(s.mid) /\ has(s.min) /\ has(s.max)
    THEN triple(s.min, Some(midpointExact(s.min[1], s.max[1])), s.max) ELSE s

finalizeSalaryNoSwap(features) ==
    LET s == computeMidRounded(swapNever(midAboveMax(midBelowMin(
                 triple(features.salary_min, features.salary_mid, features.salary_max)))))
    IN [features EXCEPT !.salary_min = s.min, !.salary_mid = s.mid, !.salary_max = s.max]

\* finalizeSalary of lib/normalizers/greenhouse (the one analyzeAdapterJob imports)
finalizeSalary(features) ==
    LET s == computeMidRounded(swapInverted(midAboveMax(midBelowMin(
                 triple(features.salary_min, features.salary_mid, features.salary_max)))))
    IN [features EXCEPT !.salary_min = s.min, !.salary_mid = s.mid, !.salary_max = s.max]

\* "If we have a Min, a Mid, but NO Max, and Mid > Min, Mid is likely the Max."
midAsMax(s) ==
    IF has(s.min) /\ has(s.mid) /\ ~has(s.max) /\ s.mid[1] > s.min[1]
    THEN triple(s.min, None, s.mid) ELSE s

\* finalizeSalary of lib/safe.ts; a field is written only when has() holds, and
\* salary_mid is cleared where midAsMax applies, so the fields end as s
finalizeSalarySafe(features) ==
    LET s == computeMidExact(swapInverted(midAsMax(
                 triple(features.salary_min, features.salary_mid, features.salary_max))))
    IN [features EXCEPT !.salary_min = s.min, !.salary_mid = s.mid, !.salary_max = s.max]

(* finalizeSalary applied to one features object *)

FinalizeAmounts ==
    {Cents(1), Cents(2), Cents(2646), Cents(3894), Dollars(50000), Dollars(100000)}

FinalizeInputs ==
    {[EmptyFeatures EXCEPT !.salary_min = a, !.salary_mid = b, !.salary_max = c] :
        a, b, c \in {None} \cup {Some(n) : n \in FinalizeAmounts}}

FinalizeInit ==
    /\ finIn \in FinalizeInputs
    /\ finOut = finIn
    /\ finBy = "none"
    /\ FetchIdle /\ PolicyIdle /\ RobotsIdle /\ SalaryIdle /\ ScoreIdle /\ ReqIdle /\ LockIdle /\ StoreIdle

Finalize ==
    /\ finBy = "none"
    /\ finOut' = finalizeSalary(finIn)
    /\ finBy' = "normalizers"
    /\ UNCHANGED <<finIn, nonFinalizeVars>>

FinalizeSafe ==
    /\ finBy = "none"
    /\ finOut' = finalizeSalarySafe(finIn)
    /\ finBy' = "safe"
    /\ UNCHANGED <<finIn, nonFinalizeVars>>

FinalizeNext == Finalize \/ FinalizeSafe

SpecFinalize == FinalizeInit /\ [][FinalizeNext]_vars

\* C13: the reconciliation pass never creates a bound that the input lacked:
\* a minimum and a midpoint alone leave the maximum unset and keep the midpoint,
\* a midpoint alone leaves both bounds unset, a single bound leaves the other unset.
C13_NoFabricatedBound ==
    finBy # "none" =>
        /\ ~has(finIn.salary_min) => ~has(finOut.salary_min)
        /\ ~has(finIn.salary_max) => ~has(finOut.salary_max)
        /\ (has(finIn.salary_min) /\ has(finIn.salary_mid) /\ ~has(finIn.salary_max))
               => finOut.salary_mid = finIn.salary_mid

BothBoundsNoMid ==
    has(finIn.salary_min) /\ has(finIn.salary_max) /\ ~has(finIn.salary_mid)

OrderedBounds ==
    /\ finOut.salary_min[1] = (IF finIn.salary_min[1] <= finIn.salary_max[1]
                               THEN finIn.salary_min[1] ELSE finIn.salary_max[1])
    /\ finOut.salary_max[1] = (IF finIn.salary_min[1] <= finIn.salary_max[1]
                               THEN finIn.salary_max[1] ELSE finIn.salary_min[1])
    /\ finOut.salary_min[1] <= finOut.salary_max[1]

-----------------------------------------------------------------------------
(* The deterministic salary tiers of one posting.                           *)
(* The content text is modelled by what the extractors read from it: whether*)
(* it is empty, the first salary range in it, whether that range carries a  *)
(* dollar sign or "per year" wording, and whether the text has hourly words.*)

(* Program constants, in dollars *)
HourlyThresholdDollars == 300
AnnualThresholdDollars == 10000
TinyRangeDollars == 100

\* JavaScript truthiness of a numeric field: neither null/undefined nor 0
truthy(n) == has(n) /\ n[1] # 0

Text(kind, lo, hi, dollar, perYear, hourly) ==
    [kind |-> kind, lo |-> lo, hi |-> hi, dollar |-> dollar,
     perYear |-> perYear, hourly |-> hourly]

\* extractSalaryFromTextCore: the annual range, else the general range
extractSalaryFromTextCore(text) ==
    IF text.kind # "range"
    THEN [found |-> FALSE, salary_min |-> None, salary_max |-> None,
          currency |-> "none", comp_period |-> "hour"]
    ELSE [found |-> TRUE, salary_min |-> Some(text.lo), salary_max |-> Some(text.hi),
          currency |-> IF text.dollar THEN "USD" ELSE "none",
          comp_period |->
              IF text.perYear
                 \/ (text.lo >= Dollars(AnnualThresholdDollars)
                     /\ text.hi >= Dollars(AnnualThresholdDollars))
              THEN "year" ELSE "hour"]

\* unitHints(text).hour
unitHints(text) == text.hourly

\* extractSalaryFromText(text, features): fills what is null, then finalizeSalary
extractSalaryFromText(text, features) ==
    LET core == extractSalaryFromTextCore(text)
        fillMin == ~has(features.salary_min)
        fillMax == ~has(features.salary_max)
        fillCur == features.currency = "none" /\ core.currency # "none"
        changed == fillMin \/ fillMax \/ fillCur
        f1 == [features EXCEPT
                 !.salary_min = IF fillMin THEN core.salary_min ELSE @,
                 !.salary_max = IF fillMax THEN core.salary_max ELSE @,
                 !.currency = IF fillCur THEN core.currency ELSE @]
        f2 == [f1 EXCEPT
                 !.comp_period = IF changed /\ @ = "none" THEN core.comp_period ELSE @,
                 !.salary_source = IF changed /\ @ # "metadata" THEN "text" ELSE @]
    IN IF text.kind = "empty" \/ ~core.found THEN features ELSE finalizeSalary(f2)

\* one base-salary entry of the metadata list, as setCurrencyAmt commits it
setCurrencyAmt(features, entry) ==
    [features EXCEPT
        ![entry.field] = Some(entry.amount),
        !.currency = IF @ = "none" /\ entry.unit # "" THEN entry.unit ELSE @,
        !.salary_source = IF @ = "none" THEN "metadata" ELSE @,
        !.comp_period = IF @ = "none"
                        THEN (IF entry.amount <= Dollars(HourlyThresholdDollars)
                              THEN "hour" ELSE "year")
                        ELSE @]

RECURSIVE scanMetadata(_, _, _)
scanMetadata(meta, i, features) ==
    IF i > Len(meta) THEN features
    ELSE scanMetadata(meta, i + 1, setCurrencyAmt(features, meta[i]))

extractGhFeaturesFromMetadata(meta) ==
    finalizeSalary(scanMetadata(meta, 1, EmptyFeatures))

\* salary_source is re-tagged "metadata" when it is set
markMetadata(features) ==
    [features EXCEPT !.salary_source = IF @ # "none" THEN "metadata" ELSE @]

\* Object.assign(target, source) for a source whose own keys are exactly its
\* non-null fields (contentFeatures after a successful text extraction)
objectAssign(target, source) ==
    [k \in DOMAIN target |->
        IF (k \in {"salary_min", "salary_mid", "salary_max"} /\ has(source[k]))
           \/ (k \in {"currency", "comp_period", "salary_source"} /\ source[k] # "none")
        THEN source[k] ELSE target[k]]

\* greenhouseAdapter, "Extract features from Greenhouse metadata"
greenhouseFeatures(job) ==
    LET featuresWithSource == markMetadata(extractGhFeaturesFromMetadata(job.metadata))
        contentFeatures == extractSalaryFromText(job.text, EmptyFeatures)
    IN IF ~truthy(featuresWithSource.salary_min) /\ ~truthy(featuresWithSource.salary_max)
          /\ job.text.kind # "empty"
          /\ (truthy(contentFeatures.salary_min) \/ truthy(contentFeatures.salary_max))
       THEN [objectAssign(featuresWithSource, contentFeatures)
                EXCEPT !.salary_source = "content"]
       ELSE featuresWithSource

NoFeatures == [present |-> FALSE, f |-> EmptyFeatures]

\* analyzeAdapterJob step 1-2: job.features, else the Greenhouse metadata fallback
startingFeatures(job, adapted) ==
    IF adapted.present THEN adapted.f
    ELSE IF job.ats = "greenhouse"
         THEN markMetadata(extractGhFeaturesFromMetadata(job.metadata))
         ELSE EmptyFeatures

hasSalaryFromHighPriority(features) ==
    /\ features.salary_source \in {"metadata", "jsonld"}
    /\ (truthy(features.salary_min) \/ truthy(features.salary_max))

\* "Only run text extraction if missing salary from high-priority sources"
textStep(text, features) ==
    IF hasSalaryFromHighPriority(features) THEN features
    ELSE LET f2 == extractSalaryFromText(text, features)
         IN IF truthy(f2.salary_min) \/ truthy(f2.salary_max)
            THEN [f2 EXCEPT !.salary_source = "text"] ELSE f2

\* "If numbers are small but no explicit hourly words, delete"
tinyRangeStep(text, f2) ==
    IF has(f2.salary_min) /\ has(f2.salary_max)
       /\ f2.salary_max[1] <= Dollars(TinyRangeDollars) /\ ~unitHints(text)
    THEN [f2 EXCEPT !.salary_min = None, !.salary_max = None, !.salary_mid = None]
    ELSE f2

\* analyzeAdapterJob up to `features = f2`
deterministicFeatures(job, adapted) ==
    tinyRangeStep(job.text, textStep(job.text, startingFeatures(job, adapted)))

(* The oracle call, the merge, and analyzeJob around analyzeAdapterJob *)

\* EmptyNLP, restricted to the fields the deterministic tiers also produce
EmptyNLP ==
    [salary_min |-> None, salary_mid |-> None, salary_max |-> None, currency |-> "none"]

LLMFailureMessage == "LLM analysis failed after 2 retries."
ScrapeNullMessage == "Unable to access this job posting."
SaveFailedMessage == "Failed to save job to database"
ScrapeErrors == {ScrapeNullMessage, "Invalid URL", "robots.txt disallows fetching this path."}

\* mergePreferDeterministic(det, ai): out = {...ai}, then every non-null det value
mergePreferDeterministic(det, ai) ==
    [k \in DOMAIN det |->
        IF k \in {"salary_min", "salary_mid", "salary_max"}
        THEN (IF has(det[k]) THEN det[k] ELSE ai[k])
        ELSE IF det[k] # "none" THEN det[k]
        ELSE IF k \in DOMAIN ai THEN ai[k] ELSE "none"]

\* analyzeAdapterJob from the merge to the return
mergedResult(det, ai) == finalizeSalary(mergePreferDeterministic(det, ai))

afterInvalidRetryAgain(n) == "oracle2"

\* the nested try/catch around callOnce: a second call after the first failure,
\* LLMAnalysisError after the second
afterInvalid(n) == IF n = 1 THEN "oracle2" ELSE "failed"

NoMerged == [present |-> FALSE, f |-> EmptyFeatures]
NoOrch == [success |-> FALSE, error |-> "", features |-> NoMerged]

MetaAmounts == {0, Cents(2646), Dollars(150)}

entry(field, amount) == [field |-> field, amount |-> amount, unit |-> "EUR"]

entryList(field, a) == IF has(a) THEN <<entry(field, a[1])>> ELSE <<>>

\* the base-salary entries of job.metadata, in list order
MetadataLists ==
    {entryList("salary_min", a) \o entryList("salary_mid", b) \o entryList("salary_max", c) :
        a, b, c \in {None} \cup {Some(n) : n \in MetaAmounts}}

Texts ==
    {Text("empty", 0, 0, FALSE, FALSE, FALSE),
     Text("none", 0, 0, FALSE, FALSE, FALSE),
     Text("range", Dollars(20), Dollars(30), TRUE, FALSE, FALSE),
     Text("range", Dollars(20), Dollars(30), TRUE, FALSE, TRUE),
     Text("range", Dollars(100000), Dollars(150000), FALSE, TRUE, FALSE)}

Jobs ==
    {[ats |-> "greenhouse", withFeatures |-> w, metadata |-> m, text |-> t] :
        w \in BOOLEAN, m \in MetadataLists, t \in Texts}
    \cup {[ats |-> "web", withFeatures |-> FALSE, metadata |-> <<>>, text |-> t] : t \in Texts}

OracleAmounts == {Dollars(20), Dollars(120)}

OracleRecords ==
    {[salary_min |-> a, salary_mid |-> b, salary_max |-> c, currency |-> u] :
        a, c \in {None} \cup {Some(n) : n \in OracleAmounts},
        b \in {None, Some(Dollars(120))}, u \in {"none", "USD"}}

SalaryInit ==
    /\ spc = "start" /\ spass = 1
    /\ sjob \in Jobs
    /\ smeta = EmptyFeatures
    /\ sadapter = NoFeatures
    /\ sdet = EmptyFeatures
    /\ scalls = <<>>
    /\ sai = EmptyNLP
    /\ smerged = NoMerged
    /\ sthrown = ""
    /\ sorch = NoOrch
    /\ FetchIdle /\ PolicyIdle /\ RobotsIdle /\ FinalizeIdle /\ ScoreIdle /\ ReqIdle /\ LockIdle /\ StoreIdle

\* analyzeJob: scrapeJobFromUrl threw or returned null
ScrapeFails(msg) ==
    /\ spc = "start"
    /\ sthrown' = msg
    /\ sorch' = [NoOrch EXCEPT !.error = msg]
    /\ spc' = "returned"
    /\ UNCHANGED <<spass, sjob, smeta, sadapter, sdet, scalls, sai, smerged, nonSalaryVars>>

\* the adapter built the AdapterJob
AdapterReturns ==
    /\ spc = "start"
    /\ smeta' = IF sjob.ats = "greenhouse"
                THEN extractGhFeaturesFromMetadata(sjob.metadata) ELSE EmptyFeatures
    /\ sadapter' = IF sjob.ats = "greenhouse" /\ sjob.withFeatures
                   THEN [present |-> TRUE, f |-> greenhouseFeatures(sjob)]
                   ELSE NoFeatures
    /\ spc' = "adapted"
    /\ UNCHANGED <<spass, sjob, sdet, scalls, sai, smerged, sthrown, sorch, nonSalaryVars>>

\* analyzeJob: insertIntoJobTable returned no id
SaveJobFails ==
    /\ spc = "adapted" /\ sjob.ats = "greenhouse"
    /\ sthrown' = SaveFailedMessage
    /\ sorch' = [NoOrch EXCEPT !.error = SaveFailedMessage]
    /\ spc' = "returned"
    /\ UNCHANGED <<spass, sjob, smeta, sadapter, sdet, scalls, sai, smerged, nonSalaryVars>>

\* analyzeAdapterJob up to the first callOnce
Deterministic ==
    /\ spc = "adapted"
    /\ sdet' = deterministicFeatures(sjob, sadapter)
    /\ scalls' = <<>>
    /\ spc' = "oracle1"
    /\ UNCHANGED <<spass, sjob, smeta, sadapter, sai, smerged, sthrown, sorch, nonSalaryVars>>

\* callOnce returned validated data
OracleValid(data) ==
    /\ spc \in {"oracle1", "oracle2"}
    /\ scalls' = Append(scalls, TRUE)
    /\ sai' = IF spass = 1 THEN data ELSE sai
    /\ spc' = "merge"
    /\ UNCHANGED <<spass, sjob, smeta, sadapter, sdet, smerged, sthrown, sorch, nonSalaryVars>>

\* callOnce threw: the request failed, or the response did not parse or validate
OracleInvalid ==
    /\ spc \in {"oracle1", "oracle2"}
    /\ scalls' = Append(scalls, FALSE)
    /\ spc' = afterInvalid(Len(scalls) + 1)
    /\ sthrown' = IF spc' = "failed" THEN LLMFailureMessage ELSE sthrown
    /\ UNCHANGED <<spass, sjob, smeta, sadapter, sdet, sai, smerged, sorch, nonSalaryVars>>

\* analyzeAdapterJob merges, reconciles and returns; in the second run the result
\* goes to the job_features row
Merge ==
    /\ spc = "merge"
    /\ smerged' = IF spass = 1 THEN [present |-> TRUE, f |-> mergedResult(sdet, sai)]
                  ELSE smerged
    /\ spc' = IF spass = 1 /\ sjob.ats = "greenhouse" THEN "storing" ELSE "done"
    /\ UNCHANGED <<spass, sjob, smeta, sadapter, sdet, scalls, sai, sthrown, sorch, nonSalaryVars>>

\* InsertStructuredJobFeatures runs analyzeAdapterJob on the same job again
StoreFeatures ==
    /\ spc = "storing"
    /\ spass' = 2
    /\ scalls' = <<>>
    /\ sai' = EmptyNLP
    /\ spc' = "oracle1"
    /\ UNCHANGED <<sjob, smeta, sadapter, sdet, smerged, sthrown, sorch, nonSalaryVars>>

\* analyzeJob's catch: { success: false, error: error.message }
AnalyzeJobCatch ==
    /\ spc = "failed"
    /\ sorch' = [NoOrch EXCEPT !.error = sthrown]
    /\ spc' = "returned"
    /\ UNCHANGED <<spass, sjob, smeta, sadapter, sdet, scalls, sai, smerged, sthrown, nonSalaryVars>>

AnalyzeJobReturns ==
    /\ spc = "done"
    /\ sorch' = [success |-> TRUE, error |-> "", features |-> smerged]
    /\ spc' = "returned"
    /\ UNCHANGED <<spass, sjob, smeta, sadapter, sdet, scalls, sai, smerged, sthrown, nonSalaryVars>>

SalaryNext ==
    \/ \E msg \in ScrapeErrors : ScrapeFails(msg)
    \/ AdapterReturns
    \/ SaveJobFails
    \/ Deterministic
    \/ \E data \in OracleRecords : OracleValid(data)
    \/ OracleInvalid
    \/ Merge
    \/ StoreFeatures
    \/ AnalyzeJobCatch
    \/ AnalyzeJobReturns

SpecSalary == SalaryInit /\ [][SalaryNext]_vars

(* Claims about the salary tiers *)

SalaryKeys == {"salary_min", "salary_mid", "salary_max"}
FeatureKeys == SalaryKeys \cup {"currency", "comp_period", "salary_source"}

\* the field k of a features object holds a value
isSet(f, k) == IF k \in SalaryKeys THEN has(f[k]) ELSE f[k] # "none"

\* every field that `higher` set still holds the same value in `after`
keeps(higher, after) == \A k \in FeatureKeys : isSet(higher, k) => after[k] = higher[k]

DeterministicDone == spc \notin {"start", "adapted", "returned"} \/ (spc = "returned" /\ sorch.success)
MergedDone == spass = 1 /\ spc \in {"storing", "done"}

\* C11: when the metadata tier produced a minimum but no maximum and the text holds
\* a salary range, the deterministic features keep that minimum and leave the
\* maximum unset.
C11_MetadataMinBlocksText ==
    (/\ DeterministicDone
     /\ sjob.ats = "greenhouse" /\ sjob.text.kind = "range"
     /\ has(smeta.salary_min) /\ ~has(smeta.salary_max))
        => (sdet.salary_min = smeta.salary_min /\ ~has(sdet.salary_max))

\* C12: through the adapter's feature extraction and the text-extraction and
\* tiny-range step, every field a higher tier set keeps its value.
C12_HigherTierKept ==
    /\ (spc # "start" /\ sadapter.present) => keeps(smeta, sadapter.f)
    /\ DeterministicDone => keeps(startingFeatures(sjob, sadapter), sdet)

\* C15: every field the deterministic stage set has the same value in the result of
\* analyzeAdapterJob, whatever the oracle returned.
C15_DeterministicWins ==
    MergedDone => keeps(sdet, smerged.f)

\* C16: when any deterministic salary field is set, no salary field of the merged
\* result comes from the oracle.
C16_OracleSalaryOnlyWhenNone ==
    (MergedDone /\ \E k \in SalaryKeys : has(sdet[k]))
        => \A k \in SalaryKeys : smerged.f[k] = sdet[k]

\* C17: analyzeAdapterJob calls the oracle at most twice, the second time only after
\* a failed first call; two failures end in the enrichment-failure error with no
\* feature set, and analyzeJob hands exactly that failure to its caller under its own
\* message; a call that validates is the one whose data is merged.
C17_RetryOnceThenFail ==
    /\ Len(scalls) <= 2
    /\ Len(scalls) = 2 => scalls[1] = FALSE
    /\ spc = "oracle2" => scalls = <<FALSE>>
    /\ spc = "merge" => (scalls # <<>> /\ scalls[Len(scalls)] = TRUE)
    /\ spc = "failed" =>
          /\ scalls = <<FALSE, FALSE>>
          /\ sthrown = LLMFailureMessage
          /\ spass = 1 => ~smerged.present
    /\ spc = "returned" =>
          /\ (sorch.error = LLMFailureMessage) <=> (scalls = <<FALSE, FALSE>>)
          /\ sorch.error = LLMFailureMessage =>
                (~sorch.success /\ ~sorch.features.present)
    /\ (MergedDone /\ sdet.currency = "none") => smerged.f.currency = sai.currency

C17_Witness ==
    /\ spc = "returned" /\ spass = 1
    /\ scalls = <<FALSE, FALSE>>
    /\ sorch = [NoOrch EXCEPT !.error = LLMFailureMessage]

(* Scoring: app/scoring/score.ts *)
(* Sub-scores and the overall score are counted in tenths, weights in hundredths; *)
(* the overall score is the exact quotient num / den of such numbers.             *)

Unit == 10

FreshnessHorizonDays == 90

ScoreKeys ==
    {"freshness", "link_integrity", "salary_disclosure", "salary_min_present",
     "source_credibility", "skills_present", "buzzword_penalty", "comp_period_clarity"}

DEFAULT_WEIGHTS ==
    [freshness |-> 20, link_integrity |-> 10, salary_disclosure |-> 25,
     salary_min_present |-> 15, source_credibility |-> 10, skills_present |-> 10,
     buzzword_penalty |-> 5, comp_period_clarity |-> 5]

clamp01(x) == IF x < 0 THEN 0 ELSE IF x > Unit THEN Unit ELSE x

\* clamp01 applied to the quotient num / den, den > 0
clampQuotient(num, den) ==
    IF num < 0 THEN [num |-> 0, den |-> 1]
    ELSE IF num > Unit * den THEN [num |-> Unit, den |-> 1]
    ELSE [num |-> num, den |-> den]

\* firstPublished is None or the age of the date in days; 1 - min(age / 90, 1)
featureFreshness(firstPublished) ==
    IF ~has(firstPublished) THEN 5
    ELSE LET age == firstPublished[1]
             capped == IF age >= FreshnessHorizonDays THEN Unit
                       ELSE (age * Unit) \div FreshnessHorizonDays
         IN clamp01(Unit - capped)

featureLinkIntegrity(flags) ==
    IF ~flags.link_ok THEN 0 ELSE IF flags.link_loop THEN 0 ELSE Unit

featureSalaryDisclosure(f) ==
    IF has(f.salary_min) THEN Unit
    ELSE IF has(f.salary_max) THEN 5
    ELSE 0

featureSalaryMinPresent(f) == IF has(f.salary_min) THEN Unit ELSE 0

\* hostHint is "none" or the class of the host: "ats", "careers" or "other"
featureSourceCredibility(f, hostHint) ==
    LET src == IF f.salary_source = "none" THEN "unknown" ELSE f.salary_source
        srcBoost == IF src \in {"metadata", "both"} THEN 1
                    ELSE IF src = "text" THEN -1 ELSE 0
        base == IF hostHint = "none" THEN 5
                ELSE IF hostHint = "ats" THEN 9
                ELSE IF hostHint = "careers" THEN 7
                ELSE 6
    IN clamp01(base + srcBoost)

featureSkillsPresent(analysis) ==
    IF ~analysis.present THEN 0
    ELSE IF analysis.skills = 0 THEN 0
    ELSE IF analysis.skills >= 5 THEN Unit
    ELSE 5

featureBuzzwordPenalty(analysis) ==
    IF ~analysis.present THEN Unit
    ELSE IF analysis.count = 0 THEN Unit
    ELSE IF analysis.count >= 5 THEN 0
    ELSE Unit - analysis.count * 2

featureCompPeriodClarity(analysis) ==
    IF ~analysis.present \/ analysis.comp_period_detected = "none" THEN 5 ELSE Unit

RECURSIVE sumOver(_, _)
sumOver(f, keys) ==
    IF keys = {} THEN 0
    ELSE LET k == CHOOSE x \in keys : TRUE IN f[k] + sumOver(f, keys \ {k})

\* { ...DEFAULT_WEIGHTS, ...weights }, read at key k; None where no number is there
weightOf(weights, k) ==
    IF k \in DOMAIN weights THEN weights[k]
    ELSE IF k \in DOMAIN DEFAULT_WEIGHTS THEN Some(DEFAULT_WEIGHTS[k])
    ELSE None

\* typeof weight === "number" && weight > 0
counted(weights, k) == has(weightOf(weights, k)) /\ weightOf(weights, k)[1] > 0

finalizeScore(breakdown, weights) ==
    LET keys == DOMAIN breakdown
        used == {k \in keys : counted(weights, k)}
        sumW == sumOver([k \in used |-> weightOf(weights, k)[1]], used)
        sum == sumOver([k \in used |-> weightOf(weights, k)[1] * clamp01(breakdown[k])], used)
        total == sumOver([k \in keys |-> clamp01(breakdown[k])], keys)
    IN IF sumW > 0 THEN clampQuotient(sum, sumW)
       ELSE IF keys = {} THEN [num |-> 0, den |-> 1]
       ELSE clampQuotient(total, Cardinality(keys))

breakdownOf(input) ==
    [freshness |-> featureFreshness(input.first_published),
     link_integrity |-> featureLinkIntegrity(input),
     salary_disclosure |-> featureSalaryDisclosure(input.features),
     salary_min_present |-> featureSalaryMinPresent(input.features),
     source_credibility |-> featureSourceCredibility(input.features, input.host_hint),
     skills_present |-> featureSkillsPresent(input.nlp_analysis),
     buzzword_penalty |-> featureBuzzwordPenalty(input.nlp_analysis),
     comp_period_clarity |-> featureCompPeriodClarity(input.nlp_analysis)]

\* weights ?? DEFAULT_WEIGHTS
weightsOrDefault(weights) ==
    IF weights.given THEN weights.w ELSE [k \in ScoreKeys |-> Some(DEFAULT_WEIGHTS[k])]

allWeights(v) == [k \in ScoreKeys |-> v]

NoWeights == [k \in {} |-> None]

\* the weights argument of scoreJob: absent, or a partial assignment of numbers
\* (Some) and undefined (None)
WeightProfiles ==
    {[given |-> FALSE, w |-> NoWeights],
     [given |-> TRUE, w |-> NoWeights],
     [given |-> TRUE, w |-> allWeights(Some(0))],
     [given |-> TRUE, w |-> allWeights(None)],
     [given |-> TRUE, w |-> [allWeights(Some(0)) EXCEPT !["freshness"] = Some(100)]],
     [given |-> TRUE, w |-> [allWeights(Some(0)) EXCEPT !["link_integrity"] = Some(-50)]],
     [given |-> TRUE, w |-> [k \in {"salary_disclosure"} |-> Some(50)]]}

AgesDays == {0, 45, 198}

NoAnalysis == [present |-> FALSE, skills |-> 0, count |-> 0, comp_period_detected |-> "none"]

\* nlp_analysis: absent, or skills.length, buzzwords.count and comp_period_detected
Analyses ==
    {NoAnalysis}
    \cup {[present |-> TRUE, skills |-> s, count |-> c,
           comp_period_detected |-> IF s = 0 THEN "none" ELSE "hour"] :
            s \in {0, 3, 5}, c \in {-1, 0, 2, 5}}

ScoreInputs ==
    {[first_published |-> d, link_ok |-> ok, link_loop |-> loop,
      features |-> [EmptyFeatures EXCEPT !.salary_min = lo, !.salary_max = hi,
                                         !.salary_source = src],
      host_hint |-> h, nlp_analysis |-> a] :
        d \in {None} \cup {Some(n) : n \in AgesDays}, ok \in BOOLEAN, loop \in BOOLEAN,
        lo \in {None, Some(Dollars(50000))}, hi \in {None, Some(Dollars(100000))},
        src \in {"none", "metadata", "text"},
        h \in {"none", "ats", "careers", "other"}, a \in Analyses}

NoScoreInput == CHOOSE i \in ScoreInputs : TRUE

NoBreakdown == [k \in {} |-> 0]

\* breakdowns handed to finalizeScore on their own
Breakdowns ==
    {NoBreakdown,
     [k \in {"freshness"} |-> 8],
     [k \in {"freshness"} |-> 0],
     [k \in {"freshness", "buzzword_penalty"} |-> IF k = "freshness" THEN 0 ELSE Unit],
     [k \in {"freshness", "link_integrity"} |-> IF k = "freshness" THEN 5 ELSE Unit],
     [k \in {"salary_disclosure", "skills_present"} |-> 5]}

NoScore == [num |-> 0, den |-> 1]

ScoreInit ==
    /\ kweights \in WeightProfiles
    /\ \/ kpc = "job" /\ kinput \in ScoreInputs /\ kbreakdown = NoBreakdown
       \/ kpc = "breakdown" /\ kinput = NoScoreInput /\ kbreakdown \in Breakdowns
    /\ kscore = NoScore
    /\ FetchIdle /\ PolicyIdle /\ RobotsIdle /\ FinalizeIdle /\ SalaryIdle /\ ReqIdle /\ LockIdle /\ StoreIdle

\* scoreJob(input, weights)
ScoreJob ==
    /\ kpc = "job"
    /\ kbreakdown' = breakdownOf(kinput)
    /\ kscore' = finalizeScore(kbreakdown', weightsOrDefault(kweights))
    /\ kpc' = "scoredJob"
    /\ UNCHANGED <<kinput, kweights, nonScoreVars>>

\* finalizeScore(breakdown, weights) on a given breakdown
FinalizeScore ==
    /\ kpc = "breakdown"
    /\ kscore' = finalizeScore(kbreakdown, weightsOrDefault(kweights))
    /\ kpc' = "scoredBreakdown"
    /\ UNCHANGED <<kinput, kweights, kbreakdown, nonScoreVars>>

ScoreNext == ScoreJob \/ FinalizeScore

SpecScore == ScoreInit /\ [][ScoreNext]_vars

(* Claims about the score *)

Scored == kpc \in {"scoredJob", "scoredBreakdown"}

unitInterval(x) == 0 <= x /\ x <= Unit

\* C18: for a non-empty breakdown the overall score is 0 only if every entry of the
\* breakdown is exactly 0.
C18_ZeroOnlyIfAllZero ==
    (Scored /\ DOMAIN kbreakdown # {} /\ kscore.num = 0)
        => \A k \in DOMAIN kbreakdown : kbreakdown[k] = 0

\* C19: when every weight that applies to a present sub-score is zero or unset, the
\* overall score is the arithmetic mean of the entries of the breakdown; the
\* breakdown {freshness: 0.8} then scores 0.8.
C19_MeanWhenNoWeight ==
    (/\ Scored /\ DOMAIN kbreakdown # {}
     /\ \A k \in DOMAIN kbreakdown :
            weightOf(weightsOrDefault(kweights), k) \in {None, Some(0)})
        => /\ kscore.num * Cardinality(DOMAIN kbreakdown)
                = sumOver(kbreakdown, DOMAIN kbreakdown) * kscore.den
           /\ kbreakdown = [k \in {"freshness"} |-> 8] => kscore.num = 8 * kscore.den

\* C20: the overall score and every entry of the breakdown scoreJob returns lie
\* in [0,1].
C20_UnitInterval ==
    kpc = "scoredJob" =>
        /\ 0 <= kscore.num /\ kscore.num <= Unit * kscore.den
        /\ \A k \in DOMAIN kbreakdown : unitInterval(kbreakdown[k])

(* requisition_id: isPlaceholderReqId and the greenhouse adapter *)
(* A string is a sequence of one-character strings.              *)

UpperLetters == <<"A", "B", "C", "D", "E", "F", "G", "H", "I", "J", "K", "L", "M", "N", "O", "P", "Q", "R", "S", "T", "U", "V", "W", "X", "Y", "Z">>
LowerLetters == <<"a", "b", "c", "d", "e", "f", "g", "h", "i", "j", "k", "l", "m", "n", "o", "p", "q", "r", "s", "t", "u", "v", "w", "x", "y", "z">>

toLowerChar(c) ==
    IF \E i \in 1..Len(UpperLetters) : UpperLetters[i] = c
    THEN LowerLetters[CHOOSE i \in 1..Len(UpperLetters) : UpperLetters[i] = c]
    ELSE c

\* mutant: the case of the letters is kept
toLowerCaseKeep(s) == s

toLowerCase(s) == [i \in 1..Len(s) |-> toLowerChar(s[i])]

isSpace(c) == c = " "

RECURSIVE trimStart(_)
trimStart(s) == IF s # <<>> /\ isSpace(Head(s)) THEN trimStart(Tail(s)) ELSE s

RECURSIVE trimEnd(_)
trimEnd(s) ==
    IF s # <<>> /\ isSpace(s[Len(s)]) THEN trimEnd(SubSeq(s, 1, Len(s) - 1)) ELSE s

trim(s) == trimEnd(trimStart(s))

\* s.replace(/[.:]+$/g, "")
RECURSIVE stripTrailingDots(_)
stripTrailingDots(s) ==
    IF s # <<>> /\ s[Len(s)] \in {".", ":"}
    THEN stripTrailingDots(SubSeq(s, 1, Len(s) - 1)) ELSE s

placeholders ==
    {<<"s", "e", "e", " ", "o", "p", "e", "n", "i", "n", "g", " ", "i", "d">>,
     <<"s", "e", "e", " ", "j", "o", "b", " ", "i", "d">>,
     <<"s", "e", "e", " ", "r", "e", "q", " ", "i", "d">>,
     <<"n", "/", "a">>,
     <<"n", "a">>,
     <<"n", "o", "n", "e">>,
     <<"n", "u", "l", "l">>,
     <<"t", "b", "d">>,
     <<"n", "o", "t", " ", "a", "p", "p", "l", "i", "c", "a", "b", "l", "e">>}

Absent == [present |-> FALSE, s |-> <<>>]
Str(s) == [present |-> TRUE, s |-> s]

\* v is undefined or null (Absent) or a string
isPlaceholderReqId(v) ==
    IF ~v.present \/ v.s = <<>> THEN TRUE
    ELSE stripTrailingDots(toLowerCase(trim(v.s))) \in placeholders

\* requisition_id of the normalized AdapterJob
normalizedReqId(v) == IF isPlaceholderReqId(v) THEN Absent ELSE v

ReqCores ==
    {<<"t", "b", "d">>,
     <<"T", "B", "D">>,
     <<"T", "b", "d">>,
     <<"n", "/", "a">>,
     <<"N", "/", "A">>,
     <<"N", ".", "A">>,
     <<"n", "a">>,
     <<"S", "e", "e", " ", "O", "p", "e", "n", "i", "n", "g", " ", "I", "D">>,
     <<"s", "e", "e", " ", "j", "o", "b", " ", "i", "d">>,
     <<"N", "o", "n", "e">>,
     <<"N", "U", "L", "L">>,
     <<"N", "o", "t", " ", "A", "p", "p", "l", "i", "c", "a", "b", "l", "e">>,
     <<"R", "E", "Q", "-", "1">>,
     <<"R", "1">>,
     <<"t", "b", "d", "1">>,
     <<>>}

ReqPrefixes == {<<>>, <<" ">>, <<"(">>, <<"#">>}

ReqSuffixes == {<<>>, <<".">>, <<":">>, <<".", ":">>, <<".", ".">>, <<" ">>, <<".", " ">>, <<"!">>, <<")">>}

ReqValues ==
    {Absent} \cup {Str(a \o b \o c) : a \in ReqPrefixes, b \in ReqCores, c \in ReqSuffixes}

ReqInit ==
    /\ qpc = "input"
    /\ qvalue \in ReqValues
    /\ qout = Absent
    /\ FetchIdle /\ PolicyIdle /\ RobotsIdle /\ FinalizeIdle /\ SalaryIdle /\ ScoreIdle /\ LockIdle /\ StoreIdle

\* greenhouseAdapter builds the normalized job
Normalize ==
    /\ qpc = "input"
    /\ qout' = normalizedReqId(qvalue)
    /\ qpc' = "normalized"
    /\ UNCHANGED <<qvalue, nonReqVars>>

ReqNext == Normalize

SpecReq == ReqInit /\ [][ReqNext]_vars

(* Claims about the requisition id *)

isPunctuation(c) == c \in {".", ":", "!", "(", ")", "#", "/", "-"}

RECURSIVE lettersOf(_)
lettersOf(s) ==
    IF s = <<>> THEN <<>>
    ELSE IF isPunctuation(Head(s)) THEN lettersOf(Tail(s))
    ELSE <<toLowerChar(Head(s))>> \o lettersOf(Tail(s))

\* the value reads as a placeholder phrase once case and punctuation are ignored
ReadsAsPlaceholder(s) == trim(lettersOf(s)) \in {lettersOf(p) : p \in placeholders}

\* the value is a placeholder phrase in any letter case, between optional spaces,
\* followed by any number of periods and colons
PlaceholderWithTrailingDots(s) ==
    \E i \in 1..(Len(s) + 1), j \in 0..Len(s), k \in 0..Len(s) :
        /\ i <= j + 1 /\ j <= k
        /\ \A n \in 1..(i - 1) : isSpace(s[n])
        /\ [n \in 1..(j - i + 1) |-> toLowerChar(s[i + n - 1])] \in placeholders
        /\ \A n \in (j + 1)..k : s[n] \in {".", ":"}
        /\ \A n \in (k + 1)..Len(s) : isSpace(s[n])

\* C22: a requisition_id that matches a placeholder phrase, whatever its letter case
\* and punctuation, becomes null; every other non-empty value is passed through.
C22_PlaceholderAnyPunctuation ==
    (qpc = "normalized" /\ qvalue.present /\ qvalue.s # <<>>) =>
        IF ReadsAsPlaceholder(qvalue.s) THEN qout = Absent ELSE qout = qvalue

\* C22, amended: a requisition_id that is a placeholder phrase in any letter case,
\* with surrounding spaces and trailing periods and colons ignored, becomes null;
\* every other non-empty value is passed through unchanged.
C22_PlaceholderTrailingDots ==
    (qpc = "normalized" /\ qvalue.present /\ qvalue.s # <<>>) =>
        IF PlaceholderWithTrailingDots(qvalue.s) THEN qout = Absent ELSE qout = qvalue

\* "See Opening ID." became null
C22_Witness ==
    /\ qpc = "normalized"
    /\ qvalue = Str(<<"S", "e", "e", " ", "O", "p", "e", "n", "i", "n", "g", " ", "I", "D", ".">>)
    /\ qout = Absent

(* The lock-guarded POST handler and the request_lock table *)

NumReqs == 2

InitialTokens == 3

Reqs == 1..NumReqs

NoRow == [exists |-> FALSE, is_available |-> FALSE, tokens |-> 0]
Row(avail, tokens) == [exists |-> TRUE, is_available |-> avail, tokens |-> tokens]

NoSnap == [is_available |-> FALSE, tokens |-> 0]

\* the handler returns (or its catch returns) the response; the finally block
\* releases only when lockHeld
respond(r, status) ==
    /\ lresp' = [lresp EXCEPT ![r] = status]
    /\ lpc' = [lpc EXCEPT ![r] = IF lheld[r] THEN "release" ELSE "done"]

\* POST after request_lock_and_tokens returned: lines 28-35
afterCheck(r, snap) ==
    /\ lsnap' = [lsnap EXCEPT ![r] = snap]
    /\ IF snap.tokens <= 0 THEN respond(r, 429)
       ELSE IF ~snap.is_available THEN respond(r, 409)
       ELSE /\ lpc' = [lpc EXCEPT ![r] = "setlock"]
            /\ UNCHANGED lresp

\* mutant: the locking update has no is_available filter
lockFilterNone(rowv) == rowv.exists

\* .eq("user_id", userId).eq("is_available", true)
lockFilter(rowv) == rowv.exists /\ rowv.is_available

LockInit ==
    /\ row \in {NoRow} \cup {Row(TRUE, n) : n \in {0, 1, InitialTokens}}
    /\ lpc = [r \in Reqs |-> "start"]
    /\ lsnap = [r \in Reqs |-> NoSnap]
    /\ ldata = [r \in Reqs |-> 0]
    /\ lheld = [r \in Reqs |-> FALSE]
    /\ lresp = [r \in Reqs |-> 0]
    /\ FetchIdle /\ PolicyIdle /\ RobotsIdle /\ FinalizeIdle /\ SalaryIdle /\ ScoreIdle /\ ReqIdle /\ StoreIdle

\* getUser: a signed-in user, or none
GetUser(r, ok) ==
    /\ lpc[r] = "start"
    /\ IF ok THEN lpc' = [lpc EXCEPT ![r] = "select"] /\ UNCHANGED lresp
       ELSE respond(r, 401)
    /\ UNCHANGED <<row, lsnap, ldata, lheld, nonLockVars>>

\* request_lock_and_tokens: the select
SelectRow(r, ok) ==
    /\ lpc[r] = "select"
    /\ IF ~ok THEN respond(r, 500) /\ UNCHANGED lsnap
       ELSE IF ~row.exists
       THEN lpc' = [lpc EXCEPT ![r] = "insert"] /\ UNCHANGED <<lresp, lsnap>>
       ELSE afterCheck(r, [is_available |-> row.is_available, tokens |-> row.tokens])
    /\ UNCHANGED <<row, ldata, lheld, nonLockVars>>

\* request_lock_and_tokens: the insert of a fresh row; it fails when the row exists
InsertRow(r, ok) ==
    /\ lpc[r] = "insert"
    /\ IF ~ok \/ row.exists
       THEN respond(r, 500) /\ UNCHANGED <<row, lsnap>>
       ELSE /\ row' = Row(TRUE, InitialTokens)
            /\ afterCheck(r, [is_available |-> TRUE, tokens |-> InitialTokens])
    /\ UNCHANGED <<ldata, lheld, nonLockVars>>

\* set_request_lock: the conditional update that takes the lock
SetLock(r, ok) ==
    /\ lpc[r] = "setlock"
    /\ IF ~ok THEN respond(r, 500) /\ UNCHANGED <<row, ldata>>
       ELSE IF lockFilter(row)
       THEN /\ row' = [row EXCEPT !.is_available = FALSE]
            /\ ldata' = [ldata EXCEPT ![r] = row.tokens]
            /\ lpc' = [lpc EXCEPT ![r] = "decrement"]
            /\ UNCHANGED lresp
       ELSE respond(r, 409) /\ UNCHANGED <<row, ldata>>
    /\ UNCHANGED <<lsnap, lheld, nonLockVars>>

\* set_request_lock: the token decrement
Decrement(r, ok) ==
    /\ lpc[r] = "decrement"
    /\ IF ok
       THEN /\ row' = [row EXCEPT !.tokens = ldata[r] - 1]
            /\ lheld' = [lheld EXCEPT ![r] = TRUE]
            /\ lpc' = [lpc EXCEPT ![r] = "main"]
       ELSE /\ lpc' = [lpc EXCEPT ![r] = "reset"]
            /\ UNCHANGED <<row, lheld>>
    /\ UNCHANGED <<lsnap, ldata, lresp, nonLockVars>>

\* set_request_lock after a failed decrement: the lock is set back, the result of
\* that update is not looked at, and decErr is thrown
ResetLock(r, ok) ==
    /\ lpc[r] = "reset"
    /\ row' = IF ok THEN [row EXCEPT !.is_available = TRUE] ELSE row
    /\ respond(r, 500)
    /\ UNCHANGED <<lsnap, ldata, lheld, nonLockVars>>

\* the main logic returns the success response, or throws
Main(r, ok) ==
    /\ lpc[r] = "main"
    /\ respond(r, IF ok THEN 200 ELSE 500)
    /\ UNCHANGED <<row, lsnap, ldata, lheld, nonLockVars>>

\* finally: release_request_lock; a failed update is logged
Release(r, ok) ==
    /\ lpc[r] = "release"
    /\ row' = IF ok THEN [row EXCEPT !.is_available = TRUE] ELSE row
    /\ lpc' = [lpc EXCEPT ![r] = "done"]
    /\ UNCHANGED <<lsnap, ldata, lheld, lresp, nonLockVars>>

LockNext ==
    \E r \in Reqs, ok \in BOOLEAN :
        \/ GetUser(r, ok)
        \/ SelectRow(r, ok)
        \/ InsertRow(r, ok)
        \/ SetLock(r, ok)
        \/ Decrement(r, ok)
        \/ ResetLock(r, ok)
        \/ Main(r, ok)
        \/ Release(r, ok)

SpecLock == LockInit /\ [][LockNext]_vars

\* every request that can take a step eventually takes one
SpecLockLive == SpecLock /\ WF_vars(LockNext)


(* Claims about the lock and the tokens *)

\* the requests between their locking update and their release
Holders == {r \in Reqs : lpc[r] \in {"decrement", "reset", "main", "release"}}

\* C24: tokens_remaining never drops below 0.
C24_TokensNeverNegative ==
    row.exists => row.tokens >= 0

\* C25: at most one request at a time is between its successful locking update and
\* its release, and the lock is unavailable meanwhile; a request rejected as
\* already processing changes neither the lock flag nor the token count.
C25_OneHolder ==
    /\ [](Cardinality(Holders) <= 1)
    /\ [](\A r \in Reqs : lpc[r] \in {"decrement", "main"} => ~row.is_available)
    /\ [][\A r \in Reqs : (lresp[r] # 409 /\ lresp'[r] = 409) => row' = row]_vars

\* one request holds the lock while another was turned away by the locking update
C25_Witness ==
    \E r, q \in Reqs :
        /\ lpc[r] = "main"
        /\ lresp[q] = 409 /\ lsnap[q].is_available

\* C26: whenever a request has made the lock unavailable, the lock becomes
\* available again.
C26_LockReleased ==
    \A r \in Reqs : (r \in Holders) ~> (row.is_available)

(* The stored job: analyzeJob's cache and ingestUserJobPosting *)

MaxClockHours == 48
StepHours == 12

FreshHours == 24

\* outcomes of one run of analyzeAdapterJob: a feature set, told apart by a number
FeatureSets == {1, 2}

\* ATS updated_at timestamps
AtsTimes == {1, 2, 3}

NoJob == [exists |-> FALSE, updated_at |-> 0, last_seen |-> None]
NoFeat == [exists |-> FALSE, v |-> 0]

\* mutant: a stored job is fresh whatever its age
isJobFreshAlways(lastSeen, t) == TRUE

\* isJobFresh: last_seen null is not fresh, else hoursSinceSeen < 24
isJobFresh(lastSeen, t) == has(lastSeen) /\ t - lastSeen[1] < FreshHours

\* existingJob && isJobFresh(existingJob) && existingJob.job_features?.[0]
cacheHit(job, feat, t) == job.exists /\ isJobFresh(job.last_seen, t) /\ feat.exists

\* the upsert on (ats, tenant_slug, external_job_id): the listed columns are written,
\* last_seen is not among them; a new row gets the column default
upsertRow(job, incoming, lastSeenDefault) ==
    IF job.exists THEN [job EXCEPT !.updated_at = incoming]
    ELSE [exists |-> TRUE, updated_at |-> incoming, last_seen |-> lastSeenDefault]

\* defaults the last_seen column may have: null or now()
LastSeenDefaults(t) == {None, Some(t)}

NoCallYet ==
    [kind |-> "none", incoming |-> 0, at |-> 0, path |-> "none", prior |-> NoJob,
     priorFeat |-> NoFeat, updatesBefore |-> 0, upserts |-> 0, runs |-> 0,
     writes |-> 0, first |-> 0]

NoReturn == [success |-> FALSE, features |-> 0]

startCall(kind, incoming, path) ==
    [NoCallYet EXCEPT !.kind = kind, !.incoming = incoming, !.at = dnow, !.path = path,
                      !.prior = djob, !.priorFeat = dfeat,
                      !.updatesBefore = Len(dupdates)]

returns(success, features) ==
    /\ dret' = [success |-> success, features |-> features]
    /\ dpc' = "returned"

StoreInit ==
    /\ djob \in {NoJob} \cup
          {[exists |-> TRUE, updated_at |-> u, last_seen |-> s] :
              u \in {1, 2}, s \in {None, Some(0)}}
    /\ dfeat \in {NoFeat} \cup {[exists |-> djob.exists, v |-> 1]}
    /\ dupdates = <<>>
    /\ dnow = 0
    /\ dpc = "idle"
    /\ dcall = NoCallYet
    /\ dret = NoReturn
    /\ FetchIdle /\ PolicyIdle /\ RobotsIdle /\ FinalizeIdle /\ SalaryIdle /\ ScoreIdle /\ ReqIdle /\ LockIdle

Between == dpc \in {"idle", "returned"}

\* time passes between calls
Tick ==
    /\ Between
    /\ dnow + StepHours <= MaxClockHours
    /\ dnow' = dnow + StepHours
    /\ UNCHANGED <<djob, dfeat, dupdates, dpc, dcall, dret, nonStoreVars>>

\* analyzeJob for a Greenhouse posting: the lookup and the choice of the path
AnalyzeLookup(incoming) ==
    /\ Between
    /\ IF cacheHit(djob, dfeat, dnow)
       THEN /\ dcall' = startCall("analyze", incoming, "hit")
            /\ returns(TRUE, dfeat.v)
       ELSE /\ dcall' = startCall("analyze", incoming, "miss")
            /\ dpc' = "a_upsert"
            /\ dret' = NoReturn
    /\ UNCHANGED <<djob, dfeat, dupdates, dnow, nonStoreVars>>

\* insertIntoJobTable, from analyzeJob or from ingestUserJobPosting
UpsertJob(ok, lastSeenDefault) ==
    /\ dpc \in {"a_upsert", "i_upsert"}
    /\ lastSeenDefault \in LastSeenDefaults(dnow)
    /\ dcall' = [dcall EXCEPT !.upserts = @ + 1]
    /\ IF ok
       THEN /\ djob' = upsertRow(djob, dcall.incoming, lastSeenDefault)
            /\ dpc' = IF dpc = "a_upsert" THEN "a_enrich" ELSE "i_timeline"
            /\ UNCHANGED dret
       ELSE /\ returns(FALSE, 0)
            /\ UNCHANGED djob
    /\ UNCHANGED <<dfeat, dupdates, dnow, nonStoreVars>>

\* analyzeJob: analyzeAdapterJob gives the features to score and return, or throws
AnalyzeEnrich(ok, v) ==
    /\ dpc = "a_enrich"
    /\ IF ok
       THEN /\ dcall' = [dcall EXCEPT !.runs = @ + 1, !.first = v]
            /\ dpc' = "a_store"
            /\ UNCHANGED dret
       ELSE /\ dcall' = [dcall EXCEPT !.runs = @ + 1]
            /\ returns(FALSE, 0)
    /\ UNCHANGED <<djob, dfeat, dupdates, dnow, nonStoreVars>>

\* InsertStructuredJobFeatures: its own run of analyzeAdapterJob, then the upsert of
\* the job_features row, whose error is logged
StoreJobFeatures(ok, v, written) ==
    /\ dpc \in {"a_store", "i_features"}
    /\ IF ok
       THEN /\ dcall' = [dcall EXCEPT !.runs = @ + 1, !.writes = @ + 1]
            /\ dfeat' = IF written THEN [exists |-> TRUE, v |-> v] ELSE dfeat
            /\ IF dpc = "a_store"
               THEN returns(TRUE, dcall.first)
               ELSE dpc' = "i_link" /\ UNCHANGED dret
       ELSE /\ dcall' = [dcall EXCEPT !.runs = @ + 1]
            /\ returns(FALSE, 0)
            /\ UNCHANGED dfeat
    /\ UNCHANGED <<djob, dupdates, dnow, nonStoreVars>>

\* ingestUserJobPosting(supabase, jobDetails, user_id)
IngestStart(incoming) ==
    /\ Between
    /\ dcall' = startCall("ingest", incoming, "none")
    /\ dpc' = "i_upsert"
    /\ dret' = NoReturn
    /\ UNCHANGED <<djob, dfeat, dupdates, dnow, nonStoreVars>>

\* InsertToJobUpdatesTable: jobRow.updated_at as read from the jobs row
existingUpdatedAt(job) == job.updated_at

\* InsertToJobUpdatesTable: a job_updates row if the incoming timestamp is newer
\* than the stored one, then last_seen
InsertToJobUpdatesTable ==
    /\ dpc = "i_timeline"
    /\ dupdates' = IF dcall.incoming > existingUpdatedAt(djob)
                   THEN Append(dupdates, dcall.incoming) ELSE dupdates
    /\ djob' = [djob EXCEPT !.last_seen = Some(dnow)]
    /\ dpc' = "i_features"
    /\ UNCHANGED <<dfeat, dnow, dcall, dret, nonStoreVars>>

\* InsertIntoUserJobCheckTable
LinkUser(ok) ==
    /\ dpc = "i_link"
    /\ returns(ok, 0)
    /\ UNCHANGED <<djob, dfeat, dupdates, dnow, dcall, nonStoreVars>>

StoreNext ==
    \/ Tick
    \/ \E t \in AtsTimes : AnalyzeLookup(t)
    \/ \E ok \in BOOLEAN, d \in {None} \cup {Some(h) : h \in 0..MaxClockHours} : UpsertJob(ok, d)
    \/ \E ok \in BOOLEAN, v \in FeatureSets : AnalyzeEnrich(ok, v)
    \/ \E ok \in BOOLEAN, v \in FeatureSets, w \in BOOLEAN : StoreJobFeatures(ok, v, w)
    \/ \E t \in AtsTimes : IngestStart(t)
    \/ InsertToJobUpdatesTable
    \/ \E ok \in BOOLEAN : LinkUser(ok)

SpecStore == StoreInit /\ [][StoreNext]_vars

\* the record found, its age and its feature set, as they were when the call looked
FoundFreshWithFeatures ==
    /\ dcall.prior.exists
    /\ has(dcall.prior.last_seen)
    /\ dcall.at - dcall.prior.last_seen[1] < FreshHours
    /\ dcall.priorFeat.exists

AnalyzeReturned == dpc = "returned" /\ dcall.kind = "analyze"

StaleReprocessed ==
    /\ AnalyzeReturned /\ dcall.path = "miss" /\ dret.success
    /\ dcall.prior.exists /\ has(dcall.prior.last_seen)
    /\ dcall.at - dcall.prior.last_seen[1] >= FreshHours

\* C28: when analyzeJob has re-processed a stale job, the stored last_seen is the
\* time of that call, so the job is fresh for the next 24 hours.
C28_StaleRefreshed ==
    StaleReprocessed => djob.last_seen = Some(dcall.at)

\* C29: on the non-cached path the feature set analyzeJob returns is the feature
\* set it has stored.
C29_ReturnedIsStored ==
    (AnalyzeReturned /\ dcall.path = "miss" /\ dret.success) =>
        dfeat.exists /\ dfeat.v = dret.features

\* the job_updates rows the call in progress has inserted
insertedUpdates == SubSeq(dupdates, dcall.updatesBefore + 1, Len(dupdates))

\* C30: re-ingesting a stored job inserts one job_updates row recording the incoming
\* timestamp when it is newer than the stored one, and none otherwise.
C30_OneUpdateRowWhenNewer ==
    (dpc = "returned" /\ dcall.kind = "ingest" /\ dret.success /\ dcall.prior.exists) =>
        insertedUpdates = IF dcall.incoming > dcall.prior.updated_at
                          THEN <<dcall.incoming>> ELSE <<>>

====
